---- MODULE Spec2Model ----
(***************************************************************************)
(* Model of the llmrpg backend: the world graph (internal/world), the      *)
(* session store (internal/session), the action executor                   *)
(* (internal/narrative, SimpleActionExecutor) and the per-turn control     *)
(* flow of the narrative engine (NarrativeEngine.ProcessPlayerInput).      *)
(*                                                                         *)
(* Several specifications are defined over the same variables:             *)
(*   Spec      the session store driven by create / get / update / turn,   *)
(*             each turn running as one unit (one turn in flight);         *)
(*   SpecExec  SimpleActionExecutor.ExecuteActions applied to one batch    *)
(*             of actions, for every graph, session and batch drawn from   *)
(*             the bounded sets below;                                     *)
(*   SpecTurn  NarrativeEngine.ProcessPlayerInput applied to one turn, for *)
(*             every graph, stored session and generator outcome;          *)
(*   SpecStore the session store driven by create / get / update alone;    *)
(*   SpecLog   GameSession.AddRecentAction applied again and again.        *)
(***************************************************************************)
EXTENDS Integers, Sequences, FiniteSets, TLC

VARIABLES
    locations,  \* InMemoryWorldSystem.locations : id -> LocationNode
    themes,     \* InMemoryWorldSystem.themes : id -> ThemeDefinition
    mu,         \* the two sync.RWMutex: mu.ws of the world, mu.sm of the store
    pc,         \* position and locals of every call that is under way
    sessions,   \* InMemorySessionManager.sessions : id -> GameSession
    now,        \* the reading time.Now() gives
    steps,      \* number of API operations completed so far
    ret         \* what the last operation was given and what it returned

vars == <<locations, themes, mu, pc, sessions, now, steps, ret>>

(***************************************************************************)
(* Bounds of the exploration.                                              *)
(***************************************************************************)
MaxBatch == 3       \* longest batch of actions handed to ExecuteActions
MaxTurnBatch == 2   \* longest actions list of a generator response in a turn
MaxSessions == 2    \* most sessions the store is driven to hold
MaxTime == 1        \* last clock reading explored
MaxSteps == 3       \* most API operations in one explored run
MaxAppends == 7     \* most entries appended to one log
MaxLoads == 2       \* most loads of the world in one explored run

(***************************************************************************)
(* Program constants.                                                      *)
(***************************************************************************)
maxRecentActions == 5

UpdateLocation == "updateLocation"
AddItem == "addItem"
RemoveItem == "removeItem"
ApplyEffect == "applyEffect"

(***************************************************************************)
(* Identifiers used as inputs.  NoSuchID is never a location of any graph. *)
(***************************************************************************)
LocationIDs == {"gate", "village", "keep"}
NoSuchID == "nowhere"
TargetIDs == LocationIDs \cup {NoSuchID}

Range(s) == {s[i] : i \in 1..Len(s)}

(***************************************************************************)
(* internal/world : LocationNode and the graphs a successful load leaves.  *)
(***************************************************************************)
\* a location without a theme, and one with a theme
LocationNode(id, adj) == [ID |-> id, AdjacentIDs |-> adj, ThemeID |-> ""]
ThemedNode(id, adj, themeID) == [ID |-> id, AdjacentIDs |-> adj, ThemeID |-> themeID]
ThemeDefinition(id, name) == [ID |-> id, Name |-> name]

\* no theme loaded; both locks free; no call under way
NoThemes == <<>>
Free == [writer |-> "none", readers |-> {}]
Unlocked == [ws |-> Free, sm |-> Free]
NoCalls == <<>>
Quiet == themes = NoThemes /\ mu = Unlocked /\ pc = NoCalls

\* gate -> village -> keep, one way only
ChainGraph ==
    [id \in {"gate", "village", "keep"} |->
        LocationNode(id, CASE id = "gate" -> <<"village">>
                           [] id = "village" -> <<"keep">>
                           [] OTHER -> <<>>)]

\* gate <-> village, the graph of the end-to-end scenarios
TwoWayGraph ==
    [id \in {"gate", "village"} |->
        LocationNode(id, IF id = "gate" THEN <<"village">> ELSE <<"gate">>)]

\* a self-loop, a location with several neighbours and a dead end
HubGraph ==
    [id \in {"gate", "village", "keep"} |->
        LocationNode(id, CASE id = "gate" -> <<"gate", "keep", "village">>
                           [] id = "keep" -> <<"gate">>
                           [] OTHER -> <<>>)]

Graphs == {ChainGraph, TwoWayGraph, HubGraph}

\* error messages are kept as word lists so that a substring test is a search
MsgCurrentNotFound == <<"current location with ID", "not found">>
MsgTargetNotFound == <<"target location with ID", "not found">>
NoMsg == <<>>

Contains(msg, word) == \E i \in 1..Len(msg) : msg[i] = word

\* IsAdjacent taking the relation as symmetric
IsAdjacentSymmetric(locs, currentLocationID, targetLocationID) ==
    IF currentLocationID \notin DOMAIN locs
    THEN [isAdj |-> FALSE, err |-> MsgCurrentNotFound]
    ELSE IF targetLocationID \notin DOMAIN locs
    THEN [isAdj |-> FALSE, err |-> MsgTargetNotFound]
    ELSE [isAdj |-> \/ targetLocationID \in Range(locs[currentLocationID].AdjacentIDs)
                    \/ currentLocationID \in Range(locs[targetLocationID].AdjacentIDs),
          err |-> NoMsg]

\* IsAdjacent without the lookup of the target
IsAdjacentNoTargetLookup(locs, currentLocationID, targetLocationID) ==
    IF currentLocationID \notin DOMAIN locs
    THEN [isAdj |-> FALSE, err |-> MsgCurrentNotFound]
    ELSE [isAdj |-> targetLocationID \in Range(locs[currentLocationID].AdjacentIDs),
          err |-> NoMsg]

\* variant: an unknown current location is answered with false and no error
IsAdjacentUnknownIsFalse(locs, currentLocationID, targetLocationID) ==
    IF currentLocationID \notin DOMAIN locs
    THEN [isAdj |-> FALSE, err |-> NoMsg]
    ELSE IF targetLocationID \notin DOMAIN locs
    THEN [isAdj |-> FALSE, err |-> MsgTargetNotFound]
    ELSE [isAdj |-> \E i \in 1..Len(locs[currentLocationID].AdjacentIDs) :
                        locs[currentLocationID].AdjacentIDs[i] = targetLocationID,
          err |-> NoMsg]

IsAdjacent(locs, currentLocationID, targetLocationID) ==
    IF currentLocationID \notin DOMAIN locs
    THEN [isAdj |-> FALSE, err |-> MsgCurrentNotFound]
    ELSE IF targetLocationID \notin DOMAIN locs
    THEN [isAdj |-> FALSE, err |-> MsgTargetNotFound]
    ELSE [isAdj |-> \E i \in 1..Len(locs[currentLocationID].AdjacentIDs) :
                        locs[currentLocationID].AdjacentIDs[i] = targetLocationID,
          err |-> NoMsg]

(***************************************************************************)
(* internal/character and internal/session : Character, GameSession.       *)
(***************************************************************************)
NewCharacter(id, name, class, origin) ==
    [ID |-> id, Name |-> name, Class |-> class, Origin |-> origin, Level |-> 1]

\* a session id is "session_<player id>_<nanoseconds>"
SessionID(playerID, t) == <<"session", playerID, t>>

\* a nil *GameSession
NilSession == <<>>

\* variant: a full log keeps its oldest entries and drops the new one
AddRecentActionKeepOldest(sess, actionSummary) ==
    LET appended == Append(sess.RecentActions, actionSummary)
    IN  [sess EXCEPT !.RecentActions =
            IF Len(appended) > maxRecentActions
            THEN SubSeq(appended, 1, maxRecentActions)
            ELSE appended]

AddRecentAction(sess, actionSummary) ==
    LET appended == Append(sess.RecentActions, actionSummary)
    IN  [sess EXCEPT !.RecentActions =
            IF Len(appended) > maxRecentActions
            THEN SubSeq(appended, Len(appended) - maxRecentActions + 1, Len(appended))
            ELSE appended]

PlayerEntry(playerInput) == <<"Player:", playerInput>>
ExecutedEntry(actionType) == <<"System executed:", actionType>>

(***************************************************************************)
(* internal/llm : LLMAction.  Data is map[string]interface{}; only the key *)
(* locationId is ever read, so Data records what a lookup of it yields.    *)
(***************************************************************************)
Absent == [kind |-> "absent", val |-> ""]
StringValue(s) == [kind |-> "string", val |-> s]
NumberValue == [kind |-> "number", val |-> "7"]

LLMAction(type, locationId) == [Type |-> type, Data |-> [locationId |-> locationId]]

MoveTo(id) == LLMAction(UpdateLocation, StringValue(id))

ActionAlphabet ==
    {MoveTo(id) : id \in TargetIDs}
    \cup {LLMAction(UpdateLocation, Absent),
          LLMAction(UpdateLocation, NumberValue),
          MoveTo("")}
    \cup {LLMAction(t, Absent) : t \in {AddItem, RemoveItem, ApplyEffect, "dance"}}

BatchesUpTo(n) == UNION {[1..k -> ActionAlphabet] : k \in 0..n}

(***************************************************************************)
(* internal/narrative : SimpleActionExecutor.                              *)
(***************************************************************************)
NoError == "nil"
ErrMissingLocationId == "action data missing required field 'locationId'"
ErrLocationIdNotString == "action data field 'locationId' must be a string"
ErrLocationIdEmpty == "action data field 'locationId' cannot be empty"
ErrLocationDoesNotExist == "validation failed - location does not exist"
ErrCheckingAdjacency == "error checking adjacency via WorldSystem"
ErrNotAdjacent == "validation failed - target location is not adjacent to current location"
ErrRequiresInventory == "requires InventorySystem (not implemented yet)"
ErrRequiresEffects == "requires Character/EffectSystem (not implemented yet)"
ErrUnknownType == "unknown or unsupported action type received from LLM"
ErrNilSession == "cannot execute actions on a nil session"

\* handleUpdateLocation that validates the move and forgets to apply it
handleUpdateLocationNoCommit(locs, action, currentSession) ==
    LET locationIDData == action.Data.locationId
        targetLocationID == locationIDData.val
        currentLocationID == currentSession.CurrentLocationID
        adj == IsAdjacent(locs, currentLocationID, targetLocationID)
    IN  IF locationIDData.kind = "absent"
        THEN [err |-> ErrMissingLocationId, session |-> currentSession, lookups |-> 0]
        ELSE IF locationIDData.kind # "string"
        THEN [err |-> ErrLocationIdNotString, session |-> currentSession, lookups |-> 0]
        ELSE IF targetLocationID = ""
        THEN [err |-> ErrLocationIdEmpty, session |-> currentSession, lookups |-> 0]
        ELSE IF currentLocationID = targetLocationID
        THEN [err |-> NoError, session |-> currentSession, lookups |-> 0]
        ELSE IF adj.err # NoMsg
        THEN [err |-> IF Contains(adj.err, "not found")
                      THEN ErrLocationDoesNotExist
                      ELSE ErrCheckingAdjacency,
              session |-> currentSession, lookups |-> 1]
        ELSE IF ~adj.isAdj
        THEN [err |-> ErrNotAdjacent, session |-> currentSession, lookups |-> 1]
        ELSE [err |-> NoError,
              session |-> currentSession,
              lookups |-> 1]

\* handleUpdateLocation without the already-there shortcut
handleUpdateLocationNoShortcut(locs, action, currentSession) ==
    LET locationIDData == action.Data.locationId
        targetLocationID == locationIDData.val
        currentLocationID == currentSession.CurrentLocationID
        adj == IsAdjacent(locs, currentLocationID, targetLocationID)
    IN  IF locationIDData.kind = "absent"
        THEN [err |-> ErrMissingLocationId, session |-> currentSession, lookups |-> 0]
        ELSE IF locationIDData.kind # "string"
        THEN [err |-> ErrLocationIdNotString, session |-> currentSession, lookups |-> 0]
        ELSE IF targetLocationID = ""
        THEN [err |-> ErrLocationIdEmpty, session |-> currentSession, lookups |-> 0]
        ELSE IF adj.err # NoMsg
        THEN [err |-> IF Contains(adj.err, "not found")
                      THEN ErrLocationDoesNotExist
                      ELSE ErrCheckingAdjacency,
              session |-> currentSession, lookups |-> 1]
        ELSE IF ~adj.isAdj
        THEN [err |-> ErrNotAdjacent, session |-> currentSession, lookups |-> 1]
        ELSE [err |-> NoError,
              session |-> [currentSession EXCEPT !.CurrentLocationID = targetLocationID],
              lookups |-> 1]

\* handleUpdateLocation without the empty-string check
handleUpdateLocationNoEmptyCheck(locs, action, currentSession) ==
    LET locationIDData == action.Data.locationId
        targetLocationID == locationIDData.val
        currentLocationID == currentSession.CurrentLocationID
        adj == IsAdjacent(locs, currentLocationID, targetLocationID)
    IN  IF locationIDData.kind = "absent"
        THEN [err |-> ErrMissingLocationId, session |-> currentSession, lookups |-> 0]
        ELSE IF locationIDData.kind # "string"
        THEN [err |-> ErrLocationIdNotString, session |-> currentSession, lookups |-> 0]
        ELSE IF currentLocationID = targetLocationID
        THEN [err |-> NoError, session |-> currentSession, lookups |-> 0]
        ELSE IF adj.err # NoMsg
        THEN [err |-> IF Contains(adj.err, "not found")
                      THEN ErrLocationDoesNotExist
                      ELSE ErrCheckingAdjacency,
              session |-> currentSession, lookups |-> 1]
        ELSE IF ~adj.isAdj
        THEN [err |-> ErrNotAdjacent, session |-> currentSession, lookups |-> 1]
        ELSE [err |-> NoError,
              session |-> [currentSession EXCEPT !.CurrentLocationID = targetLocationID],
              lookups |-> 1]

\* variant: a move to the location the session is at is refused
handleUpdateLocationRejectSame(locs, action, currentSession) ==
    LET locationIDData == action.Data.locationId
        targetLocationID == locationIDData.val
        currentLocationID == currentSession.CurrentLocationID
        adj == IsAdjacent(locs, currentLocationID, targetLocationID)
    IN  IF locationIDData.kind = "absent"
        THEN [err |-> ErrMissingLocationId, session |-> currentSession, lookups |-> 0]
        ELSE IF locationIDData.kind # "string"
        THEN [err |-> ErrLocationIdNotString, session |-> currentSession, lookups |-> 0]
        ELSE IF targetLocationID = ""
        THEN [err |-> ErrLocationIdEmpty, session |-> currentSession, lookups |-> 0]
        ELSE IF currentLocationID = targetLocationID
        THEN [err |-> ErrNotAdjacent, session |-> currentSession, lookups |-> 0]
        ELSE IF adj.err # NoMsg
        THEN [err |-> IF Contains(adj.err, "not found")
                      THEN ErrLocationDoesNotExist
                      ELSE ErrCheckingAdjacency,
              session |-> currentSession, lookups |-> 1]
        ELSE IF ~adj.isAdj
        THEN [err |-> ErrNotAdjacent, session |-> currentSession, lookups |-> 1]
        ELSE [err |-> NoError,
              session |-> [currentSession EXCEPT !.CurrentLocationID = targetLocationID],
              lookups |-> 1]

\* returns the error and the session as the handler leaves it
handleUpdateLocation(locs, action, currentSession) ==
    LET locationIDData == action.Data.locationId
        targetLocationID == locationIDData.val
        currentLocationID == currentSession.CurrentLocationID
        adj == IsAdjacent(locs, currentLocationID, targetLocationID)
    IN  IF locationIDData.kind = "absent"
        THEN [err |-> ErrMissingLocationId, session |-> currentSession, lookups |-> 0]
        ELSE IF locationIDData.kind # "string"
        THEN [err |-> ErrLocationIdNotString, session |-> currentSession, lookups |-> 0]
        ELSE IF targetLocationID = ""
        THEN [err |-> ErrLocationIdEmpty, session |-> currentSession, lookups |-> 0]
        ELSE IF currentLocationID = targetLocationID
        THEN [err |-> NoError, session |-> currentSession, lookups |-> 0]
        ELSE IF adj.err # NoMsg
        THEN [err |-> IF Contains(adj.err, "not found")
                      THEN ErrLocationDoesNotExist
                      ELSE ErrCheckingAdjacency,
              session |-> currentSession, lookups |-> 1]
        ELSE IF ~adj.isAdj
        THEN [err |-> ErrNotAdjacent, session |-> currentSession, lookups |-> 1]
        ELSE [err |-> NoError,
              session |-> [currentSession EXCEPT !.CurrentLocationID = targetLocationID],
              lookups |-> 1]

\* Dispatch whose default case lets an unrecognised type pass in silence
DispatchDropUnknown(locs, action, currentSession) ==
    CASE action.Type = UpdateLocation -> handleUpdateLocation(locs, action, currentSession)
      [] action.Type = AddItem ->
            [err |-> ErrRequiresInventory, session |-> currentSession, lookups |-> 0]
      [] action.Type = RemoveItem ->
            [err |-> ErrRequiresInventory, session |-> currentSession, lookups |-> 0]
      [] action.Type = ApplyEffect ->
            [err |-> ErrRequiresEffects, session |-> currentSession, lookups |-> 0]
      [] OTHER ->
            [err |-> NoError, session |-> currentSession, lookups |-> 0]

\* Dispatch whose applyEffect case raises the character's level
DispatchApplyEffectLevels(locs, action, currentSession) ==
    CASE action.Type = UpdateLocation -> handleUpdateLocation(locs, action, currentSession)
      [] action.Type = AddItem ->
            [err |-> ErrRequiresInventory, session |-> currentSession, lookups |-> 0]
      [] action.Type = RemoveItem ->
            [err |-> ErrRequiresInventory, session |-> currentSession, lookups |-> 0]
      [] action.Type = ApplyEffect ->
            [err |-> NoError,
             session |-> [currentSession EXCEPT !.Player.Level = @ + 1],
             lookups |-> 0]
      [] OTHER ->
            [err |-> ErrUnknownType, session |-> currentSession, lookups |-> 0]

\* the switch on the action type in the loop body of ExecuteActions
Dispatch(locs, action, currentSession) ==
    CASE action.Type = UpdateLocation -> handleUpdateLocation(locs, action, currentSession)
      [] action.Type = AddItem ->
            [err |-> ErrRequiresInventory, session |-> currentSession, lookups |-> 0]
      [] action.Type = RemoveItem ->
            [err |-> ErrRequiresInventory, session |-> currentSession, lookups |-> 0]
      [] action.Type = ApplyEffect ->
            [err |-> ErrRequiresEffects, session |-> currentSession, lookups |-> 0]
      [] OTHER ->
            [err |-> ErrUnknownType, session |-> currentSession, lookups |-> 0]

\* the wrapped error appended to executionErrors
WrappedErr(action, err) == [Type |-> action.Type, Data |-> action.Data, err |-> err]

\* an error returned as it is, naming no action
PlainErr(err) == [Type |-> "", Data |-> [locationId |-> Absent], err |-> err]

\* variant: the audit entry is written whether or not the action succeeded
ExecuteOneLogAlways(locs, action, currentSession) ==
    LET r == Dispatch(locs, action, currentSession)
    IN  [err |-> r.err,
         session |-> AddRecentAction(r.session, ExecutedEntry(action.Type)),
         lookups |-> r.lookups]

\* one iteration of the loop: dispatch, then collect the error or log the success
ExecuteOne(locs, action, currentSession) ==
    LET r == Dispatch(locs, action, currentSession)
    IN  IF r.err # NoError
        THEN [err |-> r.err, session |-> r.session, lookups |-> r.lookups]
        ELSE [err |-> NoError,
              session |-> AddRecentAction(r.session, ExecutedEntry(action.Type)),
              lookups |-> r.lookups]

\* the loop collecting each new error in front of the earlier ones
RECURSIVE ExecuteLoopPrepend(_, _, _, _, _, _)
ExecuteLoopPrepend(locs, actions, i, currentSession, executionErrors, iterations) ==
    IF i > Len(actions)
    THEN [errors |-> executionErrors, session |-> currentSession, iterations |-> iterations]
    ELSE LET r == ExecuteOne(locs, actions[i], currentSession)
         IN  ExecuteLoopPrepend(locs, actions, i + 1, r.session,
                 IF r.err # NoError
                 THEN <<WrappedErr(actions[i], r.err)>> \o executionErrors
                 ELSE executionErrors,
                 Append(iterations,
                        [action |-> actions[i], before |-> currentSession,
                         after |-> r.session, err |-> r.err, lookups |-> r.lookups]))

\* the loop leaving at the first action that fails
RECURSIVE ExecuteLoopStopOnError(_, _, _, _, _, _)
ExecuteLoopStopOnError(locs, actions, i, currentSession, executionErrors, iterations) ==
    IF i > Len(actions) \/ executionErrors # <<>>
    THEN [errors |-> executionErrors, session |-> currentSession, iterations |-> iterations]
    ELSE LET r == ExecuteOne(locs, actions[i], currentSession)
         IN  ExecuteLoopStopOnError(locs, actions, i + 1, r.session,
                 IF r.err # NoError
                 THEN Append(executionErrors, WrappedErr(actions[i], r.err))
                 ELSE executionErrors,
                 Append(iterations,
                        [action |-> actions[i], before |-> currentSession,
                         after |-> r.session, err |-> r.err, lookups |-> r.lookups]))

\* the loop walking the batch from its last action to its first
RECURSIVE ExecuteLoopBackwards(_, _, _, _, _, _)
ExecuteLoopBackwards(locs, actions, i, currentSession, executionErrors, iterations) ==
    IF i > Len(actions)
    THEN [errors |-> executionErrors, session |-> currentSession, iterations |-> iterations]
    ELSE LET a == actions[Len(actions) - i + 1]
             r == ExecuteOne(locs, a, currentSession)
         IN  ExecuteLoopBackwards(locs, actions, i + 1, r.session,
                 IF r.err # NoError
                 THEN Append(executionErrors, WrappedErr(a, r.err))
                 ELSE executionErrors,
                 Append(iterations,
                        [action |-> a, before |-> currentSession,
                         after |-> r.session, err |-> r.err, lookups |-> r.lookups]))

\* the loop of ExecuteActions from index i on; iterations records, for each
\* action attempted, the session before and after it and its error
RECURSIVE ExecuteLoop(_, _, _, _, _, _)
ExecuteLoop(locs, actions, i, currentSession, executionErrors, iterations) ==
    IF i > Len(actions)
    THEN [errors |-> executionErrors, session |-> currentSession, iterations |-> iterations]
    ELSE LET r == ExecuteOne(locs, actions[i], currentSession)
         IN  ExecuteLoop(locs, actions, i + 1, r.session,
                 IF r.err # NoError
                 THEN Append(executionErrors, WrappedErr(actions[i], r.err))
                 ELSE executionErrors,
                 Append(iterations,
                        [action |-> actions[i], before |-> currentSession,
                         after |-> r.session, err |-> r.err, lookups |-> r.lookups]))

ExecuteActions(locs, actions, currentSession) ==
    IF currentSession = NilSession
    THEN [errors |-> <<PlainErr(ErrNilSession)>>,
          session |-> NilSession, iterations |-> <<>>]
    ELSE ExecuteLoop(locs, actions, 1, currentSession, <<>>, <<>>)

(***************************************************************************)
(* SpecExec : ExecuteActions applied once to a batch, for every graph of   *)
(* Graphs, every current location and both an empty and a full log.        *)
(***************************************************************************)
NoRet == [op |-> "none"]

ExecPlayer == NewCharacter("p1", "Ash", "Courier", "Wasteland-Born")

FullLog == [i \in 1..maxRecentActions |-> PlayerEntry("look")]

ExecSession(loc, log) ==
    [ID |-> SessionID("p1", 0), Player |-> ExecPlayer, CurrentLocationID |-> loc,
     CreatedAt |-> 0, LastActive |-> 0, RecentActions |-> log]

InitExec ==
    /\ locations \in Graphs
    /\ \E loc \in TargetIDs, log \in {<<>>, FullLog} :
          sessions = [id \in {SessionID("p1", 0)} |-> ExecSession(loc, log)]
    /\ now = 0
    /\ steps = 0
    /\ ret = NoRet
    /\ Quiet

\* a direct call ExecuteActions(actions, session) on a stored session
CallExecuteActions ==
    /\ ret.op = "none"
    /\ \E sid \in DOMAIN sessions, actions \in BatchesUpTo(MaxBatch) :
          LET r == ExecuteActions(locations, actions, sessions[sid])
          IN  /\ sessions' = [sessions EXCEPT ![sid] = r.session]
              /\ ret' = [op |-> "ExecuteActions", sid |-> sid, actions |-> actions,
                         before |-> sessions[sid], errors |-> r.errors,
                         iterations |-> r.iterations]
    /\ UNCHANGED <<locations, themes, mu, pc, now, steps>>

\* a direct call ExecuteActions(actions, nil)
CallExecuteActionsNil ==
    /\ ret.op = "none"
    /\ \E actions \in BatchesUpTo(MaxBatch) :
          LET r == ExecuteActions(locations, actions, NilSession)
          IN  ret' = [op |-> "ExecuteActionsNil", sid |-> NilSession, actions |-> actions,
                      before |-> NilSession, errors |-> r.errors,
                      iterations |-> r.iterations]
    /\ UNCHANGED <<locations, themes, mu, pc, sessions, now, steps>>

NextExec == CallExecuteActions \/ CallExecuteActionsNil

SpecExec == InitExec /\ [][NextExec]_vars

(***************************************************************************)
(* internal/world : the read queries the turn uses.                        *)
(***************************************************************************)
GetLocation(locs, locationID) ==
    IF locationID \in DOMAIN locs
    THEN [found |-> TRUE, node |-> locs[locationID]]
    ELSE [found |-> FALSE, node |-> LocationNode(locationID, <<>>)]

RECURSIVE ResolveAdjacent(_, _, _)
ResolveAdjacent(locs, adjacentIDs, i) ==
    IF i > Len(adjacentIDs)
    THEN <<>>
    ELSE (IF adjacentIDs[i] \in DOMAIN locs THEN <<locs[adjacentIDs[i]]>> ELSE <<>>)
         \o ResolveAdjacent(locs, adjacentIDs, i + 1)

\* variant: an adjacency id that does not resolve fails the whole query
GetAdjacentLocationsStrict(locs, locationID) ==
    LET currentLoc == GetLocation(locs, locationID)
    IN  IF ~currentLoc.found
        THEN [found |-> FALSE, nodes |-> <<>>]
        ELSE IF \E i \in 1..Len(currentLoc.node.AdjacentIDs) :
                    currentLoc.node.AdjacentIDs[i] \notin DOMAIN locs
        THEN [found |-> FALSE, nodes |-> <<>>]
        ELSE [found |-> TRUE,
              nodes |-> ResolveAdjacent(locs, currentLoc.node.AdjacentIDs, 1)]

GetAdjacentLocations(locs, locationID) ==
    LET currentLoc == GetLocation(locs, locationID)
    IN  IF ~currentLoc.found
        THEN [found |-> FALSE, nodes |-> <<>>]
        ELSE [found |-> TRUE,
              nodes |-> ResolveAdjacent(locs, currentLoc.node.AdjacentIDs, 1)]

(***************************************************************************)
(* internal/session : InMemorySessionManager.                              *)
(***************************************************************************)
\* a nil *Character
NilCharacter == <<>>

ErrNilPlayer == "cannot create session with nil player"
ErrPlayerNoID == "player must have an ID to create a session"
ErrIDCollision == "session ID collision detected (highly unlikely)"
ErrSessionNotFound == "session not found"
ErrUpdateNil == "cannot update nil session"
ErrNotManaged == "session not managed by this manager"

Players ==
    {NilCharacter,
     NewCharacter("", "Nobody", "", ""),
     NewCharacter("p1", "Ash", "Courier", "Wasteland-Born")}

\* the start locations create is called with
StartIDs == {"gate", NoSuchID}

\* an id the store never hands out
UnknownSessionID == SessionID("ghost", 0)

\* variant: the generated id is not looked up before the session is stored
CreateNewSessionOverwrite(player, startLocationID) ==
    /\ steps < MaxSteps
    /\ steps' = steps + 1
    /\ IF player = NilCharacter
       THEN /\ ret' = [op |-> "CreateNewSession", err |-> ErrNilPlayer,
                       sid |-> NilSession, player |-> player,
                       start |-> startLocationID, at |-> now]
            /\ UNCHANGED <<sessions, now>>
       ELSE IF player.ID = ""
       THEN /\ ret' = [op |-> "CreateNewSession", err |-> ErrPlayerNoID,
                       sid |-> NilSession, player |-> player,
                       start |-> startLocationID, at |-> now]
            /\ UNCHANGED <<sessions, now>>
       ELSE /\ Cardinality(DOMAIN sessions) < MaxSessions
            /\ \E createdAt \in now..MaxTime :
                  \E lastActive \in createdAt..MaxTime :
                     LET newID == SessionID(player.ID, now)
                         sess == [ID |-> newID, Player |-> player,
                                  CurrentLocationID |-> startLocationID,
                                  CreatedAt |-> createdAt, LastActive |-> lastActive,
                                  RecentActions |-> <<>>]
                     IN  /\ sessions' = [id \in DOMAIN sessions \cup {newID} |->
                                             IF id = newID THEN sess ELSE sessions[id]]
                         /\ now' = lastActive
                         /\ ret' = [op |-> "CreateNewSession", err |-> NoError,
                                    sid |-> newID, player |-> player,
                                    start |-> startLocationID, at |-> now]
    /\ UNCHANGED <<locations, themes, mu, pc>>

\* variant: a character without an identifier is accepted
CreateNewSessionAnyID(player, startLocationID) ==
    /\ steps < MaxSteps
    /\ steps' = steps + 1
    /\ IF player = NilCharacter
       THEN /\ ret' = [op |-> "CreateNewSession", err |-> ErrNilPlayer,
                       sid |-> NilSession, player |-> player,
                       start |-> startLocationID, at |-> now]
            /\ UNCHANGED <<sessions, now>>
       ELSE IF SessionID(player.ID, now) \in DOMAIN sessions
       THEN /\ ret' = [op |-> "CreateNewSession", err |-> ErrIDCollision,
                       sid |-> NilSession, player |-> player,
                       start |-> startLocationID, at |-> now]
            /\ UNCHANGED <<sessions, now>>
       ELSE /\ Cardinality(DOMAIN sessions) < MaxSessions
            /\ \E createdAt \in now..MaxTime :
                  \E lastActive \in createdAt..MaxTime :
                     LET newID == SessionID(player.ID, now)
                         sess == [ID |-> newID, Player |-> player,
                                  CurrentLocationID |-> startLocationID,
                                  CreatedAt |-> createdAt, LastActive |-> lastActive,
                                  RecentActions |-> <<>>]
                     IN  /\ sessions' = [id \in DOMAIN sessions \cup {newID} |->
                                             IF id = newID THEN sess ELSE sessions[id]]
                         /\ now' = lastActive
                         /\ ret' = [op |-> "CreateNewSession", err |-> NoError,
                                    sid |-> newID, player |-> player,
                                    start |-> startLocationID, at |-> now]
    /\ UNCHANGED <<locations, themes, mu, pc>>

\* time.Now() is read three times: for the id, for CreatedAt and for
\* LastActive; the clock may have moved on between the readings
CreateNewSession(player, startLocationID) ==
    /\ steps < MaxSteps
    /\ steps' = steps + 1
    /\ IF player = NilCharacter
       THEN /\ ret' = [op |-> "CreateNewSession", err |-> ErrNilPlayer,
                       sid |-> NilSession, player |-> player,
                       start |-> startLocationID, at |-> now]
            /\ UNCHANGED <<sessions, now>>
       ELSE IF player.ID = ""
       THEN /\ ret' = [op |-> "CreateNewSession", err |-> ErrPlayerNoID,
                       sid |-> NilSession, player |-> player,
                       start |-> startLocationID, at |-> now]
            /\ UNCHANGED <<sessions, now>>
       ELSE IF SessionID(player.ID, now) \in DOMAIN sessions
       THEN /\ ret' = [op |-> "CreateNewSession", err |-> ErrIDCollision,
                       sid |-> NilSession, player |-> player,
                       start |-> startLocationID, at |-> now]
            /\ UNCHANGED <<sessions, now>>
       ELSE /\ Cardinality(DOMAIN sessions) < MaxSessions
            /\ \E createdAt \in now..MaxTime :
                  \E lastActive \in createdAt..MaxTime :
                     LET newID == SessionID(player.ID, now)
                         sess == [ID |-> newID, Player |-> player,
                                  CurrentLocationID |-> startLocationID,
                                  CreatedAt |-> createdAt, LastActive |-> lastActive,
                                  RecentActions |-> <<>>]
                     IN  /\ sessions' = [id \in DOMAIN sessions \cup {newID} |->
                                             IF id = newID THEN sess ELSE sessions[id]]
                         /\ now' = lastActive
                         /\ ret' = [op |-> "CreateNewSession", err |-> NoError,
                                    sid |-> newID, player |-> player,
                                    start |-> startLocationID, at |-> now]
    /\ UNCHANGED <<locations, themes, mu, pc>>

\* variant: a successful fetch leaves LastActive alone
GetSessionResultNoRefresh(store, sessionID, t) ==
    IF sessionID \notin DOMAIN store
    THEN [err |-> ErrSessionNotFound, store |-> store]
    ELSE [err |-> NoError, store |-> store]

\* variant: a fetch sets LastActive back to the time of creation
GetSessionResultResetsActive(store, sessionID, t) ==
    IF sessionID \notin DOMAIN store
    THEN [err |-> ErrSessionNotFound, store |-> store]
    ELSE [err |-> NoError,
          store |-> [store EXCEPT ![sessionID].LastActive = store[sessionID].CreatedAt]]

\* the store's part of GetSession: the looked-up session with LastActive refreshed
GetSessionResult(store, sessionID, t) ==
    IF sessionID \notin DOMAIN store
    THEN [err |-> ErrSessionNotFound, store |-> store]
    ELSE [err |-> NoError, store |-> [store EXCEPT ![sessionID].LastActive = t]]

GetSession(sessionID) ==
    LET r == GetSessionResult(sessions, sessionID, now)
    IN  /\ steps < MaxSteps
        /\ steps' = steps + 1
        /\ sessions' = r.store
        /\ ret' = [op |-> "GetSession", err |-> r.err, sid |-> sessionID,
                   session |-> IF r.err = NoError THEN r.store[sessionID]
                                                  ELSE NilSession]
        /\ UNCHANGED <<locations, themes, mu, pc, now>>

\* variant: the store takes over whatever object it is passed
UpdateSessionResultStoresPassed(store, session, aliased, t) ==
    IF session = NilSession
    THEN [err |-> ErrUpdateNil, store |-> store, session |-> session]
    ELSE IF session.ID \notin DOMAIN store
    THEN [err |-> ErrNotManaged, store |-> store, session |-> session]
    ELSE [err |-> NoError,
          store |-> [store EXCEPT ![session.ID] = [session EXCEPT !.LastActive = t]],
          session |-> [session EXCEPT !.LastActive = t]]

\* variant: the tracked session is stamped too when another object is passed
UpdateSessionResultStampsStored(store, session, aliased, t) ==
    IF session = NilSession
    THEN [err |-> ErrUpdateNil, store |-> store, session |-> session]
    ELSE IF session.ID \notin DOMAIN store
    THEN [err |-> ErrNotManaged, store |-> store, session |-> session]
    ELSE [err |-> NoError,
          store |-> [store EXCEPT ![session.ID].LastActive = t],
          session |-> [session EXCEPT !.LastActive = t]]

\* UpdateSession on a session object: aliased tells whether the object passed
\* is the very object the store holds under its id (the pointer GetSession
\* handed out) or another object; LastActive is written on the object passed
UpdateSessionResult(store, session, aliased, t) ==
    IF session = NilSession
    THEN [err |-> ErrUpdateNil, store |-> store, session |-> session]
    ELSE IF session.ID \notin DOMAIN store
    THEN [err |-> ErrNotManaged, store |-> store, session |-> session]
    ELSE [err |-> NoError,
          store |-> IF aliased THEN [store EXCEPT ![session.ID].LastActive = t] ELSE store,
          session |-> [session EXCEPT !.LastActive = t]]

\* a copy of a stored session that its holder has moved elsewhere
Detached(sess) == [sess EXCEPT !.CurrentLocationID = "keep"]

\* a session object no store entry has the id of
UntrackedSession ==
    [ID |-> UnknownSessionID, Player |-> NewCharacter("p1", "Ash", "Courier", "Wasteland-Born"),
     CurrentLocationID |-> "gate", CreatedAt |-> 0, LastActive |-> 0,
     RecentActions |-> <<>>]

\* what callers pass to UpdateSession: the stored object, a copy of it, an
\* untracked object or nil
UpdateArgs ==
    {[session |-> sessions[id], aliased |-> TRUE] : id \in DOMAIN sessions}
    \cup {[session |-> Detached(sessions[id]), aliased |-> FALSE] : id \in DOMAIN sessions}
    \cup {[session |-> UntrackedSession, aliased |-> FALSE],
          [session |-> NilSession, aliased |-> FALSE]}

UpdateSession(session, aliased) ==
    LET r == UpdateSessionResult(sessions, session, aliased, now)
    IN  /\ steps < MaxSteps
        /\ steps' = steps + 1
        /\ sessions' = r.store
        /\ ret' = [op |-> "UpdateSession", err |-> r.err,
                   sid |-> IF session = NilSession THEN NilSession ELSE session.ID,
                   aliased |-> aliased, passed |-> session, session |-> r.session]
        /\ UNCHANGED <<locations, themes, mu, pc, now>>

\* the clock moves on
Tick ==
    /\ now < MaxTime
    /\ now' = now + 1
    /\ UNCHANGED <<locations, themes, mu, pc, sessions, steps, ret>>

(***************************************************************************)
(* internal/llm : what GenerateResponse may give back.                      *)
(***************************************************************************)
Text(t) == [kind |-> "text", text |-> t, count |-> 0]
ErrorNarrative(n) == [kind |-> "annotation", text |-> "System Error processing actions", count |-> n]

LLMResponse(narrative, suggestions, actions) ==
    [Narrative |-> narrative, Suggestions |-> suggestions, Actions |-> actions]

GenerationFailures == {"transport error", "prompt blocked", "malformed output", "context canceled"}

\* the actions a generator response is drawn from in a turn
TurnAlphabet ==
    {MoveTo(id) : id \in TargetIDs}
    \cup {LLMAction(AddItem, Absent)}

TurnBatches == UNION {[1..k -> TurnAlphabet] : k \in 0..MaxTurnBatch}

GeneratorOutcomes ==
    {[err |-> e, response |-> LLMResponse(<<>>, <<>>, <<>>)] : e \in GenerationFailures}
    \cup {[err |-> NoError, response |-> LLMResponse(<<Text("story")>>, <<"look around">>, a)] :
              a \in TurnBatches}

PlayerInputs == {"look"}

\* the engine reaches the store through the session.Manager interface; its
\* UpdateSession may return an error, which the in-memory store never does
\* for a session it has just handed out
UpdateOutcomes == {NoError, ErrNotManaged}

(***************************************************************************)
(* internal/narrative : NarrativeEngine.                                    *)
(***************************************************************************)
ErrRetrieveSession == "failed to retrieve session"
ErrBuildContext == "failed to build prompt context"
ErrLLMAdapter == "LLM adapter failed"

NoResponse == LLMResponse(<<>>, <<>>, <<>>)
NoPrompt == [built |-> FALSE]

\* variant: a current location that does not resolve is passed on by its id
buildPromptContextLenient(locs, currentSession) ==
    LET currentLoc == GetLocation(locs, currentSession.CurrentLocationID)
        adjacent == GetAdjacentLocations(locs, currentSession.CurrentLocationID)
        adjacentLocNodes == IF adjacent.found THEN adjacent.nodes ELSE <<>>
    IN  [err |-> NoError,
         prompt |-> [built |-> TRUE,
                     PlayerName |-> currentSession.Player.Name,
                     PlayerLevel |-> currentSession.Player.Level,
                     CurrentLocation |-> currentSession.CurrentLocationID,
                     AdjacentLocationIDs |->
                         [i \in 1..Len(adjacentLocNodes) |-> adjacentLocNodes[i].ID],
                     RecentActions |-> currentSession.RecentActions]]

buildPromptContext(locs, currentSession) ==
    LET currentLoc == GetLocation(locs, currentSession.CurrentLocationID)
        adjacent == GetAdjacentLocations(locs, currentSession.CurrentLocationID)
        adjacentLocNodes == IF adjacent.found THEN adjacent.nodes ELSE <<>>
    IN  IF ~currentLoc.found
        THEN [err |-> ErrBuildContext, prompt |-> NoPrompt]
        ELSE [err |-> NoError,
              prompt |-> [built |-> TRUE,
                          PlayerName |-> currentSession.Player.Name,
                          PlayerLevel |-> currentSession.Player.Level,
                          CurrentLocation |-> currentLoc.node.ID,
                          AdjacentLocationIDs |->
                              [i \in 1..Len(adjacentLocNodes) |-> adjacentLocNodes[i].ID],
                          RecentActions |-> currentSession.RecentActions]]

\* variant: the proposed actions are withheld from the caller when any of them failed
TurnClearActionsOnError(locs, store, sessionID, playerInput, generated, updateErr, t) ==
    LET got == GetSessionResult(store, sessionID, t)
        logged == AddRecentAction(got.store[sessionID], PlayerEntry(playerInput))
        ctx == buildPromptContext(locs, logged)
        actions == generated.response.Actions
        exec == IF Len(actions) > 0
                THEN ExecuteActions(locs, actions, logged)
                ELSE [errors |-> <<>>, session |-> logged, iterations |-> <<>>]
        finalResponse ==
            IF Len(exec.errors) > 0
            THEN [generated.response EXCEPT
                     !.Narrative = <<ErrorNarrative(Len(exec.errors))>> \o @,
                     !.Actions = <<>>]
            ELSE generated.response
        executed == [got.store EXCEPT ![sessionID] = exec.session]
        updated == IF updateErr # NoError
                   THEN [err |-> updateErr, store |-> executed]
                   ELSE UpdateSessionResult(executed, executed[sessionID], TRUE, t)
    IN  IF got.err # NoError
        THEN [err |-> ErrRetrieveSession, response |-> NoResponse, store |-> store,
              prompt |-> NoPrompt, generatorCalled |-> FALSE, executorCalled |-> FALSE,
              errors |-> <<>>, iterations |-> <<>>, updateFailed |-> FALSE]
        ELSE IF ctx.err # NoError
        THEN [err |-> ErrBuildContext, response |-> NoResponse,
              store |-> [got.store EXCEPT ![sessionID] = logged],
              prompt |-> NoPrompt, generatorCalled |-> FALSE, executorCalled |-> FALSE,
              errors |-> <<>>, iterations |-> <<>>, updateFailed |-> FALSE]
        ELSE IF generated.err # NoError
        THEN [err |-> ErrLLMAdapter, response |-> NoResponse,
              store |-> [got.store EXCEPT ![sessionID] = logged],
              prompt |-> ctx.prompt, generatorCalled |-> TRUE, executorCalled |-> FALSE,
              errors |-> <<>>, iterations |-> <<>>, updateFailed |-> FALSE]
        ELSE [err |-> NoError, response |-> finalResponse, store |-> updated.store,
              prompt |-> ctx.prompt, generatorCalled |-> TRUE,
              executorCalled |-> Len(actions) > 0,
              errors |-> exec.errors, iterations |-> exec.iterations,
              updateFailed |-> updated.err # NoError]

\* variant: a failed generation is answered with an empty result instead of an error
TurnFallbackOnGeneratorError(locs, store, sessionID, playerInput, generated, updateErr, t) ==
    LET got == GetSessionResult(store, sessionID, t)
        logged == AddRecentAction(got.store[sessionID], PlayerEntry(playerInput))
        ctx == buildPromptContext(locs, logged)
        actions == generated.response.Actions
        exec == IF Len(actions) > 0
                THEN ExecuteActions(locs, actions, logged)
                ELSE [errors |-> <<>>, session |-> logged, iterations |-> <<>>]
        finalResponse ==
            IF Len(exec.errors) > 0
            THEN [generated.response EXCEPT
                     !.Narrative = <<ErrorNarrative(Len(exec.errors))>> \o @]
            ELSE generated.response
        executed == [got.store EXCEPT ![sessionID] = exec.session]
        updated == IF updateErr # NoError
                   THEN [err |-> updateErr, store |-> executed]
                   ELSE UpdateSessionResult(executed, executed[sessionID], TRUE, t)
    IN  IF got.err # NoError
        THEN [err |-> ErrRetrieveSession, response |-> NoResponse, store |-> store,
              prompt |-> NoPrompt, generatorCalled |-> FALSE, executorCalled |-> FALSE,
              errors |-> <<>>, iterations |-> <<>>, updateFailed |-> FALSE]
        ELSE IF ctx.err # NoError
        THEN [err |-> ErrBuildContext, response |-> NoResponse,
              store |-> [got.store EXCEPT ![sessionID] = logged],
              prompt |-> NoPrompt, generatorCalled |-> FALSE, executorCalled |-> FALSE,
              errors |-> <<>>, iterations |-> <<>>, updateFailed |-> FALSE]
        ELSE IF generated.err # NoError
        THEN [err |-> NoError, response |-> generated.response,
              store |-> [got.store EXCEPT ![sessionID] = logged],
              prompt |-> ctx.prompt, generatorCalled |-> TRUE, executorCalled |-> FALSE,
              errors |-> <<>>, iterations |-> <<>>, updateFailed |-> FALSE]
        ELSE [err |-> NoError, response |-> finalResponse, store |-> updated.store,
              prompt |-> ctx.prompt, generatorCalled |-> TRUE,
              executorCalled |-> Len(actions) > 0,
              errors |-> exec.errors, iterations |-> exec.iterations,
              updateFailed |-> updated.err # NoError]

\* variant: an aborted turn hands the session back as it found it
TurnRollbackOnAbort(locs, store, sessionID, playerInput, generated, updateErr, t) ==
    LET got == GetSessionResult(store, sessionID, t)
        logged == AddRecentAction(got.store[sessionID], PlayerEntry(playerInput))
        ctx == buildPromptContext(locs, logged)
        actions == generated.response.Actions
        exec == IF Len(actions) > 0
                THEN ExecuteActions(locs, actions, logged)
                ELSE [errors |-> <<>>, session |-> logged, iterations |-> <<>>]
        finalResponse ==
            IF Len(exec.errors) > 0
            THEN [generated.response EXCEPT
                     !.Narrative = <<ErrorNarrative(Len(exec.errors))>> \o @]
            ELSE generated.response
        executed == [got.store EXCEPT ![sessionID] = exec.session]
        updated == IF updateErr # NoError
                   THEN [err |-> updateErr, store |-> executed]
                   ELSE UpdateSessionResult(executed, executed[sessionID], TRUE, t)
    IN  IF got.err # NoError
        THEN [err |-> ErrRetrieveSession, response |-> NoResponse, store |-> store,
              prompt |-> NoPrompt, generatorCalled |-> FALSE, executorCalled |-> FALSE,
              errors |-> <<>>, iterations |-> <<>>, updateFailed |-> FALSE]
        ELSE IF ctx.err # NoError
        THEN [err |-> ErrBuildContext, response |-> NoResponse,
              store |-> store,
              prompt |-> NoPrompt, generatorCalled |-> FALSE, executorCalled |-> FALSE,
              errors |-> <<>>, iterations |-> <<>>, updateFailed |-> FALSE]
        ELSE IF generated.err # NoError
        THEN [err |-> ErrLLMAdapter, response |-> NoResponse,
              store |-> store,
              prompt |-> ctx.prompt, generatorCalled |-> TRUE, executorCalled |-> FALSE,
              errors |-> <<>>, iterations |-> <<>>, updateFailed |-> FALSE]
        ELSE [err |-> NoError, response |-> finalResponse, store |-> updated.store,
              prompt |-> ctx.prompt, generatorCalled |-> TRUE,
              executorCalled |-> Len(actions) > 0,
              errors |-> exec.errors, iterations |-> exec.iterations,
              updateFailed |-> updated.err # NoError]

\* variant: a turn for an unknown id is played on a session the store holds
TurnAnySession(locs, store, sessionID, playerInput, generated, updateErr, t) ==
    LET sid == IF sessionID \notin DOMAIN store /\ DOMAIN store # {}
               THEN CHOOSE id \in DOMAIN store : TRUE
               ELSE sessionID
        got == GetSessionResult(store, sid, t)
        logged == AddRecentAction(got.store[sid], PlayerEntry(playerInput))
        ctx == buildPromptContext(locs, logged)
        actions == generated.response.Actions
        exec == IF Len(actions) > 0
                THEN ExecuteActions(locs, actions, logged)
                ELSE [errors |-> <<>>, session |-> logged, iterations |-> <<>>]
        finalResponse ==
            IF Len(exec.errors) > 0
            THEN [generated.response EXCEPT
                     !.Narrative = <<ErrorNarrative(Len(exec.errors))>> \o @]
            ELSE generated.response
        executed == [got.store EXCEPT ![sid] = exec.session]
        updated == IF updateErr # NoError
                   THEN [err |-> updateErr, store |-> executed]
                   ELSE UpdateSessionResult(executed, executed[sid], TRUE, t)
    IN  IF got.err # NoError
        THEN [err |-> ErrRetrieveSession, response |-> NoResponse, store |-> store,
              prompt |-> NoPrompt, generatorCalled |-> FALSE, executorCalled |-> FALSE,
              errors |-> <<>>, iterations |-> <<>>, updateFailed |-> FALSE]
        ELSE IF ctx.err # NoError
        THEN [err |-> ErrBuildContext, response |-> NoResponse,
              store |-> [got.store EXCEPT ![sid] = logged],
              prompt |-> NoPrompt, generatorCalled |-> FALSE, executorCalled |-> FALSE,
              errors |-> <<>>, iterations |-> <<>>, updateFailed |-> FALSE]
        ELSE IF generated.err # NoError
        THEN [err |-> ErrLLMAdapter, response |-> NoResponse,
              store |-> [got.store EXCEPT ![sid] = logged],
              prompt |-> ctx.prompt, generatorCalled |-> TRUE, executorCalled |-> FALSE,
              errors |-> <<>>, iterations |-> <<>>, updateFailed |-> FALSE]
        ELSE [err |-> NoError, response |-> finalResponse, store |-> updated.store,
              prompt |-> ctx.prompt, generatorCalled |-> TRUE,
              executorCalled |-> Len(actions) > 0,
              errors |-> exec.errors, iterations |-> exec.iterations,
              updateFailed |-> updated.err # NoError]

\* variant: a failed UpdateSession fails the turn
TurnFailsOnUpdateError(locs, store, sessionID, playerInput, generated, updateErr, t) ==
    LET got == GetSessionResult(store, sessionID, t)
        logged == AddRecentAction(got.store[sessionID], PlayerEntry(playerInput))
        ctx == buildPromptContext(locs, logged)
        actions == generated.response.Actions
        exec == IF Len(actions) > 0
                THEN ExecuteActions(locs, actions, logged)
                ELSE [errors |-> <<>>, session |-> logged, iterations |-> <<>>]
        finalResponse ==
            IF Len(exec.errors) > 0
            THEN [generated.response EXCEPT
                     !.Narrative = <<ErrorNarrative(Len(exec.errors))>> \o @]
            ELSE generated.response
        executed == [got.store EXCEPT ![sessionID] = exec.session]
        updated == IF updateErr # NoError
                   THEN [err |-> updateErr, store |-> executed]
                   ELSE UpdateSessionResult(executed, executed[sessionID], TRUE, t)
    IN  IF got.err # NoError
        THEN [err |-> ErrRetrieveSession, response |-> NoResponse, store |-> store,
              prompt |-> NoPrompt, generatorCalled |-> FALSE, executorCalled |-> FALSE,
              errors |-> <<>>, iterations |-> <<>>, updateFailed |-> FALSE]
        ELSE IF ctx.err # NoError
        THEN [err |-> ErrBuildContext, response |-> NoResponse,
              store |-> [got.store EXCEPT ![sessionID] = logged],
              prompt |-> NoPrompt, generatorCalled |-> FALSE, executorCalled |-> FALSE,
              errors |-> <<>>, iterations |-> <<>>, updateFailed |-> FALSE]
        ELSE IF generated.err # NoError
        THEN [err |-> ErrLLMAdapter, response |-> NoResponse,
              store |-> [got.store EXCEPT ![sessionID] = logged],
              prompt |-> ctx.prompt, generatorCalled |-> TRUE, executorCalled |-> FALSE,
              errors |-> <<>>, iterations |-> <<>>, updateFailed |-> FALSE]
        ELSE [err |-> updated.err,
              response |-> IF updated.err # NoError THEN NoResponse ELSE finalResponse,
              store |-> updated.store,
              prompt |-> ctx.prompt, generatorCalled |-> TRUE,
              executorCalled |-> Len(actions) > 0,
              errors |-> exec.errors, iterations |-> exec.iterations,
              updateFailed |-> updated.err # NoError]

\* the turn recording the narrative of the generator in the log of the session
TurnLogsNarrative(locs, store, sessionID, playerInput, generated, updateErr, t) ==
    LET got == GetSessionResult(store, sessionID, t)
        logged == AddRecentAction(got.store[sessionID], PlayerEntry(playerInput))
        ctx == buildPromptContext(locs, logged)
        narrated == AddRecentAction(logged, <<"Narrator:", generated.response.Narrative>>)
        actions == generated.response.Actions
        exec == IF Len(actions) > 0
                THEN ExecuteActions(locs, actions, narrated)
                ELSE [errors |-> <<>>, session |-> narrated, iterations |-> <<>>]
        finalResponse ==
            IF Len(exec.errors) > 0
            THEN [generated.response EXCEPT
                     !.Narrative = <<ErrorNarrative(Len(exec.errors))>> \o @]
            ELSE generated.response
        executed == [got.store EXCEPT ![sessionID] = exec.session]
        updated == IF updateErr # NoError
                   THEN [err |-> updateErr, store |-> executed]
                   ELSE UpdateSessionResult(executed, executed[sessionID], TRUE, t)
    IN  IF got.err # NoError
        THEN [err |-> ErrRetrieveSession, response |-> NoResponse, store |-> store,
              prompt |-> NoPrompt, generatorCalled |-> FALSE, executorCalled |-> FALSE,
              errors |-> <<>>, iterations |-> <<>>, updateFailed |-> FALSE]
        ELSE IF ctx.err # NoError
        THEN [err |-> ErrBuildContext, response |-> NoResponse,
              store |-> [got.store EXCEPT ![sessionID] = logged],
              prompt |-> NoPrompt, generatorCalled |-> FALSE, executorCalled |-> FALSE,
              errors |-> <<>>, iterations |-> <<>>, updateFailed |-> FALSE]
        ELSE IF generated.err # NoError
        THEN [err |-> ErrLLMAdapter, response |-> NoResponse,
              store |-> [got.store EXCEPT ![sessionID] = logged],
              prompt |-> ctx.prompt, generatorCalled |-> TRUE, executorCalled |-> FALSE,
              errors |-> <<>>, iterations |-> <<>>, updateFailed |-> FALSE]
        ELSE [err |-> NoError, response |-> finalResponse, store |-> updated.store,
              prompt |-> ctx.prompt, generatorCalled |-> TRUE,
              executorCalled |-> Len(actions) > 0,
              errors |-> exec.errors, iterations |-> exec.iterations,
              updateFailed |-> updated.err # NoError]

\* the turn building the context before it records the player input
TurnContextBeforeInput(locs, store, sessionID, playerInput, generated, updateErr, t) ==
    LET got == GetSessionResult(store, sessionID, t)
        logged == AddRecentAction(got.store[sessionID], PlayerEntry(playerInput))
        ctx == buildPromptContext(locs, got.store[sessionID])
        actions == generated.response.Actions
        exec == IF Len(actions) > 0
                THEN ExecuteActions(locs, actions, logged)
                ELSE [errors |-> <<>>, session |-> logged, iterations |-> <<>>]
        finalResponse ==
            IF Len(exec.errors) > 0
            THEN [generated.response EXCEPT
                     !.Narrative = <<ErrorNarrative(Len(exec.errors))>> \o @]
            ELSE generated.response
        executed == [got.store EXCEPT ![sessionID] = exec.session]
        updated == IF updateErr # NoError
                   THEN [err |-> updateErr, store |-> executed]
                   ELSE UpdateSessionResult(executed, executed[sessionID], TRUE, t)
    IN  IF got.err # NoError
        THEN [err |-> ErrRetrieveSession, response |-> NoResponse, store |-> store,
              prompt |-> NoPrompt, generatorCalled |-> FALSE, executorCalled |-> FALSE,
              errors |-> <<>>, iterations |-> <<>>, updateFailed |-> FALSE]
        ELSE IF ctx.err # NoError
        THEN [err |-> ErrBuildContext, response |-> NoResponse,
              store |-> [got.store EXCEPT ![sessionID] = logged],
              prompt |-> NoPrompt, generatorCalled |-> FALSE, executorCalled |-> FALSE,
              errors |-> <<>>, iterations |-> <<>>, updateFailed |-> FALSE]
        ELSE IF generated.err # NoError
        THEN [err |-> ErrLLMAdapter, response |-> NoResponse,
              store |-> [got.store EXCEPT ![sessionID] = logged],
              prompt |-> ctx.prompt, generatorCalled |-> TRUE, executorCalled |-> FALSE,
              errors |-> <<>>, iterations |-> <<>>, updateFailed |-> FALSE]
        ELSE [err |-> NoError, response |-> finalResponse, store |-> updated.store,
              prompt |-> ctx.prompt, generatorCalled |-> TRUE,
              executorCalled |-> Len(actions) > 0,
              errors |-> exec.errors, iterations |-> exec.iterations,
              updateFailed |-> updated.err # NoError]

\* one whole turn on the stored session: what it returns and the store it leaves
Turn(locs, store, sessionID, playerInput, generated, updateErr, t) ==
    LET got == GetSessionResult(store, sessionID, t)
        logged == AddRecentAction(got.store[sessionID], PlayerEntry(playerInput))
        ctx == buildPromptContext(locs, logged)
        actions == generated.response.Actions
        exec == IF Len(actions) > 0
                THEN ExecuteActions(locs, actions, logged)
                ELSE [errors |-> <<>>, session |-> logged, iterations |-> <<>>]
        finalResponse ==
            IF Len(exec.errors) > 0
            THEN [generated.response EXCEPT
                     !.Narrative = <<ErrorNarrative(Len(exec.errors))>> \o @]
            ELSE generated.response
        executed == [got.store EXCEPT ![sessionID] = exec.session]
        updated == IF updateErr # NoError
                   THEN [err |-> updateErr, store |-> executed]
                   ELSE UpdateSessionResult(executed, executed[sessionID], TRUE, t)
    IN  IF got.err # NoError
        THEN [err |-> ErrRetrieveSession, response |-> NoResponse, store |-> store,
              prompt |-> NoPrompt, generatorCalled |-> FALSE, executorCalled |-> FALSE,
              errors |-> <<>>, iterations |-> <<>>, updateFailed |-> FALSE]
        ELSE IF ctx.err # NoError
        THEN [err |-> ErrBuildContext, response |-> NoResponse,
              store |-> [got.store EXCEPT ![sessionID] = logged],
              prompt |-> NoPrompt, generatorCalled |-> FALSE, executorCalled |-> FALSE,
              errors |-> <<>>, iterations |-> <<>>, updateFailed |-> FALSE]
        ELSE IF generated.err # NoError
        THEN [err |-> ErrLLMAdapter, response |-> NoResponse,
              store |-> [got.store EXCEPT ![sessionID] = logged],
              prompt |-> ctx.prompt, generatorCalled |-> TRUE, executorCalled |-> FALSE,
              errors |-> <<>>, iterations |-> <<>>, updateFailed |-> FALSE]
        ELSE [err |-> NoError, response |-> finalResponse, store |-> updated.store,
              prompt |-> ctx.prompt, generatorCalled |-> TRUE,
              executorCalled |-> Len(actions) > 0,
              errors |-> exec.errors, iterations |-> exec.iterations,
              updateFailed |-> updated.err # NoError]

\* a turn whose generator answers with one of outcomes and whose final
\* UpdateSession returns one of updateOutcomes
ProcessPlayerInputWith(outcomes, updateOutcomes) ==
    /\ steps < MaxSteps
    /\ steps' = steps + 1
    /\ \E sessionID \in DOMAIN sessions \cup {UnknownSessionID},
          playerInput \in PlayerInputs, generated \in outcomes,
          updateErr \in updateOutcomes :
          LET r == Turn(locations, sessions, sessionID, playerInput, generated,
                        updateErr, now)
          IN  /\ sessions' = r.store
              /\ ret' = [op |-> "ProcessPlayerInput", sid |-> sessionID,
                         input |-> playerInput, generated |-> generated,
                         updateErr |-> updateErr, at |-> now,
                         before |-> IF sessionID \in DOMAIN sessions
                                    THEN sessions[sessionID] ELSE NilSession,
                         err |-> r.err, response |-> r.response,
                         prompt |-> r.prompt, generatorCalled |-> r.generatorCalled,
                         executorCalled |-> r.executorCalled,
                         errors |-> r.errors, iterations |-> r.iterations,
                         updateFailed |-> r.updateFailed]
    /\ UNCHANGED <<locations, themes, mu, pc, now>>

ProcessPlayerInput ==
    ProcessPlayerInputWith(GeneratorOutcomes, UpdateOutcomes)

(***************************************************************************)
(* Spec : the store after the world was loaded, driven through its API.    *)
(***************************************************************************)
Init ==
    /\ locations \in Graphs
    /\ sessions = <<>>
    /\ now = 0
    /\ steps = 0
    /\ ret = NoRet
    /\ Quiet

Next ==
    \/ \E player \in Players, startLocationID \in StartIDs :
          CreateNewSession(player, startLocationID)
    \/ \E sessionID \in DOMAIN sessions \cup {UnknownSessionID} : GetSession(sessionID)
    \/ \E arg \in UpdateArgs : UpdateSession(arg.session, arg.aliased)
    \/ ProcessPlayerInput
    \/ Tick

Spec == Init /\ [][Next]_vars

(***************************************************************************)
(* SpecTurn : one turn on a store that holds one session, for every graph, *)
(* current location, an empty and a full log, and every clock reading.     *)
(***************************************************************************)
InitTurn ==
    /\ locations \in Graphs
    /\ \E loc \in TargetIDs, log \in {<<>>, FullLog} :
          sessions = [id \in {SessionID("p1", 0)} |-> ExecSession(loc, log)]
    /\ now \in 0..MaxTime
    /\ steps = 0
    /\ ret = NoRet
    /\ Quiet

NextTurn == ret.op = "none" /\ ProcessPlayerInput

SpecTurn == InitTurn /\ [][NextTurn]_vars

(***************************************************************************)
(* SpecStore : the session store driven by create, get and update.         *)
(***************************************************************************)
NextStore ==
    \/ \E player \in Players, startLocationID \in StartIDs :
          CreateNewSession(player, startLocationID)
    \/ \E sessionID \in DOMAIN sessions \cup {UnknownSessionID} : GetSession(sessionID)
    \/ \E arg \in UpdateArgs : UpdateSession(arg.session, arg.aliased)
    \/ Tick

SpecStore == Init /\ [][NextStore]_vars

(***************************************************************************)
(* SpecLog : AddRecentAction applied to one session by its two callers,    *)
(* ret.appended keeping every entry ever appended.                         *)
(***************************************************************************)
LogInputs == {"look", "go north"}

InitLog ==
    /\ locations \in {TwoWayGraph}
    /\ sessions = [id \in {SessionID("p1", 0)} |-> ExecSession("gate", <<>>)]
    /\ now = 0
    /\ steps = 0
    /\ ret = [op |-> "AddRecentAction", appended |-> <<>>]
    /\ Quiet

\* ProcessPlayerInput recording the player's input
RecordPlayerInput(sid, playerInput) ==
    /\ Len(ret.appended) < MaxAppends
    /\ sessions' = [sessions EXCEPT
                       ![sid] = AddRecentAction(@, PlayerEntry(playerInput))]
    /\ ret' = [ret EXCEPT !.appended = Append(@, PlayerEntry(playerInput))]
    /\ UNCHANGED <<locations, themes, mu, pc, now, steps>>

\* ExecuteActions recording an action that succeeded
RecordExecuted(sid, actionType) ==
    /\ Len(ret.appended) < MaxAppends
    /\ sessions' = [sessions EXCEPT
                       ![sid] = AddRecentAction(@, ExecutedEntry(actionType))]
    /\ ret' = [ret EXCEPT !.appended = Append(@, ExecutedEntry(actionType))]
    /\ UNCHANGED <<locations, themes, mu, pc, now, steps>>

NextLog ==
    \/ \E sid \in DOMAIN sessions, playerInput \in LogInputs :
          RecordPlayerInput(sid, playerInput)
    \/ \E sid \in DOMAIN sessions : RecordExecuted(sid, UpdateLocation)

SpecLog == InitLog /\ [][NextLog]_vars

(***************************************************************************)
(* InMemoryWorldSystem.LoadWorldData.  The two directories are given as    *)
(* the files WalkDir visits, in its lexical order; every .json file is     *)
(* taken to be readable and well-formed.  A file is its name, split into   *)
(* stem and extension, and the fields of the record it holds.              *)
(***************************************************************************)
ThemeFile(stem, ext, id, name) == [file |-> <<stem, ext>>, ID |-> id, Name |-> name]
LocationFile(stem, ext, id, adj, themeID) ==
    [file |-> <<stem, ext>>, ID |-> id, AdjacentIDs |-> adj, ThemeID |-> themeID]

\* a file that is not JSON, a theme, a second file with the same theme id,
\* and a theme whose id is left to the file name
ThemeFiles ==
    <<ThemeFile("readme", ".md", "readme", "Read me"),
      ThemeFile("ruins", ".json", "ruins", "Ruins"),
      ThemeFile("ruins_night", ".json", "ruins", "Ruins by night"),
      ThemeFile("wastes", ".json", "", "Wastes")>>

\* gate (themed) -> village; a second file with the id gate; keep (id left
\* to the file name, themed) -> gate; village -> gate, keep
LocationFiles ==
    <<LocationFile("gate", ".json", "gate", <<"village">>, "ruins"),
      LocationFile("gate_copy", ".json", "gate", <<>>, ""),
      LocationFile("keep", ".json", "", <<"gate">>, "wastes"),
      LocationFile("village", ".json", "village", <<"gate", "keep">>, "")>>

\* the directories a load may be pointed at: any of the files above
Directories(files) ==
    {SelectSeq(files, LAMBDA f : f \in chosen) : chosen \in SUBSET Range(files)}

ErrWorldLoad == "errors during world data loading"

\* strings.TrimSuffix(d.Name(), filepath.Ext(d.Name())) when the id is empty
FileID(f) == IF f.ID = "" THEN f.file[1] ELSE f.ID
IsJSON(f) == f.file[2] = ".json"

Put(map, key, value) ==
    [k \in DOMAIN map \cup {key} |-> IF k = key THEN value ELSE map[k]]

\* variant: the maps of the earlier load are kept and loaded onto
ClearedKeepsOld ==
    [locations |-> locations, themes |-> themes, loadErrors |-> {}]

\* the maps and loadErrors once LoadWorldData has taken the lock
Cleared ==
    [locations |-> <<>>, themes |-> <<>>, loadErrors |-> {}]

\* the WalkDir callback of the theme directory on one file
LoadThemeFile(st, f) ==
    IF ~IsJSON(f)
    THEN st
    ELSE IF FileID(f) \in DOMAIN st.themes
    THEN [st EXCEPT !.loadErrors =
              @ \cup {[kind |-> "duplicate theme ID", id |-> FileID(f), ref |-> f.file]}]
    ELSE [st EXCEPT !.themes = Put(@, FileID(f), ThemeDefinition(FileID(f), f.Name))]

\* variant: a location is stored whatever theme it names
LoadLocationFileAnyTheme(st, f) ==
    IF ~IsJSON(f)
    THEN st
    ELSE IF FileID(f) \in DOMAIN st.locations
    THEN [st EXCEPT !.loadErrors =
              @ \cup {[kind |-> "duplicate location ID", id |-> FileID(f), ref |-> f.file]}]
    ELSE IF FALSE
    THEN [st EXCEPT !.loadErrors =
              @ \cup {[kind |-> "non-existent theme ID", id |-> FileID(f), ref |-> f.file]}]
    ELSE [st EXCEPT !.locations =
              Put(@, FileID(f), ThemedNode(FileID(f), f.AdjacentIDs, f.ThemeID))]

\* the WalkDir callback of the location directory on one file
LoadLocationFile(st, f) ==
    IF ~IsJSON(f)
    THEN st
    ELSE IF FileID(f) \in DOMAIN st.locations
    THEN [st EXCEPT !.loadErrors =
              @ \cup {[kind |-> "duplicate location ID", id |-> FileID(f), ref |-> f.file]}]
    ELSE IF f.ThemeID # "" /\ f.ThemeID \notin DOMAIN st.themes
    THEN [st EXCEPT !.loadErrors =
              @ \cup {[kind |-> "non-existent theme ID", id |-> FileID(f), ref |-> f.file]}]
    ELSE [st EXCEPT !.locations =
              Put(@, FileID(f), ThemedNode(FileID(f), f.AdjacentIDs, f.ThemeID))]

RECURSIVE LoadThemes(_, _, _)
LoadThemes(files, i, st) ==
    IF i > Len(files) THEN st ELSE LoadThemes(files, i + 1, LoadThemeFile(st, files[i]))

RECURSIVE LoadLocations(_, _, _)
LoadLocations(files, i, st) ==
    IF i > Len(files) THEN st ELSE LoadLocations(files, i + 1, LoadLocationFile(st, files[i]))

\* the stored adjacencies that name no stored location, as <<id, position>>
DanglingAdjacencies(locs) ==
    UNION {{<<id, i>> : i \in {j \in DOMAIN locs[id].AdjacentIDs :
                                  locs[id].AdjacentIDs[j] \notin DOMAIN locs}} :
              id \in DOMAIN locs}

\* the post-load validation: one error per stored adjacency that is dangling
ValidateAdjacency(st) ==
    [st EXCEPT !.loadErrors =
        @ \cup {[kind |-> "non-existent adjacent location ID", id |-> p[1],
                 ref |-> <<st.locations[p[1]].AdjacentIDs[p[2]]>>] :
                    p \in DanglingAdjacencies(st.locations)}]

LoadWorldDataResult(locationFiles, themeFiles) ==
    LET st == ValidateAdjacency(
                  LoadLocations(locationFiles, 1, LoadThemes(themeFiles, 1, Cleared)))
    IN  [locations |-> st.locations, themes |-> st.themes, loadErrors |-> st.loadErrors,
         err |-> IF st.loadErrors # {} THEN ErrWorldLoad ELSE NoError]

\* the other read queries of the world
GetTheme(ths, themeID) ==
    IF themeID \in DOMAIN ths
    THEN [found |-> TRUE, theme |-> ths[themeID]]
    ELSE [found |-> FALSE, theme |-> ThemeDefinition(themeID, "")]
GetAllLocationIDs(locs) == DOMAIN locs
GetAllThemeIDs(ths) == DOMAIN ths
ValidateThemeExists(ths, themeID) == themeID \in DOMAIN ths

(***************************************************************************)
(* SpecWorld : a world system that starts empty, is loaded up to MaxLoads  *)
(* times from any of the directories, and is queried in between; every     *)
(* call runs alone, steps counting the loads.                              *)
(***************************************************************************)
ThemeIDs == {"ruins", "wastes", "void"}

InitWorld ==
    /\ locations = <<>>
    /\ sessions = <<>>
    /\ now = 0
    /\ steps = 0
    /\ ret = NoRet
    /\ Quiet

LoadWorldData ==
    /\ steps < MaxLoads
    /\ \E locationFiles \in Directories(LocationFiles),
          themeFiles \in Directories(ThemeFiles) :
          LET r == LoadWorldDataResult(locationFiles, themeFiles)
          IN  /\ locations' = r.locations
              /\ themes' = r.themes
              /\ ret' = [op |-> "LoadWorldData", locationFiles |-> locationFiles,
                         themeFiles |-> themeFiles, err |-> r.err,
                         loadErrors |-> r.loadErrors]
    /\ steps' = steps + 1
    /\ UNCHANGED <<mu, pc, sessions, now>>

CallGetLocation(locationID) ==
    /\ ret' = [op |-> "GetLocation", id |-> locationID,
               result |-> GetLocation(locations, locationID)]
    /\ UNCHANGED <<locations, themes, mu, pc, sessions, now, steps>>

CallGetTheme(themeID) ==
    /\ ret' = [op |-> "GetTheme", id |-> themeID, result |-> GetTheme(themes, themeID)]
    /\ UNCHANGED <<locations, themes, mu, pc, sessions, now, steps>>

CallIsAdjacent(currentLocationID, targetLocationID) ==
    /\ ret' = [op |-> "IsAdjacent", from |-> currentLocationID, to |-> targetLocationID,
               result |-> IsAdjacent(locations, currentLocationID, targetLocationID)]
    /\ UNCHANGED <<locations, themes, mu, pc, sessions, now, steps>>

CallGetAdjacentLocations(locationID) ==
    /\ ret' = [op |-> "GetAdjacentLocations", id |-> locationID,
               result |-> GetAdjacentLocations(locations, locationID)]
    /\ UNCHANGED <<locations, themes, mu, pc, sessions, now, steps>>

CallListings ==
    /\ ret' = [op |-> "Listings", locationIDs |-> GetAllLocationIDs(locations),
               themeIDs |-> GetAllThemeIDs(themes),
               known |-> {id \in ThemeIDs : ValidateThemeExists(themes, id)}]
    /\ UNCHANGED <<locations, themes, mu, pc, sessions, now, steps>>

NextWorld ==
    \/ LoadWorldData
    \/ \E id \in TargetIDs : CallGetLocation(id)
    \/ \E id \in ThemeIDs : CallGetTheme(id)
    \/ \E from \in TargetIDs, to \in TargetIDs : CallIsAdjacent(from, to)
    \/ \E id \in TargetIDs : CallGetAdjacentLocations(id)
    \/ CallListings

SpecWorld == InitWorld /\ [][NextWorld]_vars

(***************************************************************************)
(* SpecWorldRace : one goroutine loading the world while two others query  *)
(* it, every goroutine taking one step at a time.  mu.ws is the RWMutex of *)
(* the world: Lock announces the writer, which keeps new readers out, and  *)
(* is granted once the readers inside have left; RLock waits while a       *)
(* writer is announced.  steps counts the loads started.                   *)
(***************************************************************************)
Readers == {"reader1", "reader2"}
Idle == [at |-> "idle"]

\* the directories the racing loads are pointed at: the themed world of
\* three locations, a lone gate, and a lone village with dangling adjacencies
RaceInputs ==
    {[locationFiles |-> SelectSeq(LocationFiles, LAMBDA f : f.file[1] # "gate_copy"),
      themeFiles |-> ThemeFiles],
     [locationFiles |-> SelectSeq(LocationFiles, LAMBDA f : f.file[1] = "gate_copy"),
      themeFiles |-> <<>>],
     [locationFiles |-> SelectSeq(LocationFiles, LAMBDA f : f.file[1] = "village"),
      themeFiles |-> <<>>]}

\* the single-lock read queries, with the arguments they are called with
Queries ==
    {[op |-> "GetLocation", id |-> "gate"], [op |-> "GetTheme", id |-> "ruins"],
     [op |-> "IsAdjacent", id |-> "village"], [op |-> "GetAllLocationIDs", id |-> ""],
     [op |-> "GetAllThemeIDs", id |-> ""], [op |-> "ValidateThemeExists", id |-> "wastes"]}

\* what a query answers on the maps it is given
Answer(query, locs, ths) ==
    CASE query.op = "GetLocation" -> GetLocation(locs, query.id)
      [] query.op = "GetTheme" -> GetTheme(ths, query.id)
      [] query.op = "IsAdjacent" -> IsAdjacent(locs, "gate", query.id)
      [] query.op = "GetAllLocationIDs" -> GetAllLocationIDs(locs)
      [] query.op = "GetAllThemeIDs" -> GetAllThemeIDs(ths)
      [] OTHER -> ValidateThemeExists(ths, query.id)

InitWorldRace ==
    /\ locations = <<>>
    /\ themes = NoThemes
    /\ mu = Unlocked
    /\ pc = [p \in Readers \cup {"loader"} |-> Idle]
    /\ sessions = <<>>
    /\ now = 0
    /\ steps = 0
    /\ ret = NoRet

\* ws.mu.Lock() is called: the writer is announced
LoadLock ==
    /\ pc["loader"].at = "idle"
    /\ steps < MaxLoads
    /\ mu.ws.writer = "none"
    /\ \E input \in RaceInputs :
          pc' = [pc EXCEPT !["loader"] =
                    [at |-> "lock", locationFiles |-> input.locationFiles,
                     themeFiles |-> input.themeFiles, i |-> 1, loadErrors |-> {}]]
    /\ mu' = [mu EXCEPT !.ws.writer = "loader"]
    /\ steps' = steps + 1
    /\ UNCHANGED <<locations, themes, sessions, now, ret>>

\* Lock() returns once no reader is inside, and both maps are replaced
LoadClear ==
    /\ pc["loader"].at = "lock"
    /\ mu.ws.readers = {}
    /\ locations' = Cleared.locations
    /\ themes' = Cleared.themes
    /\ pc' = [pc EXCEPT !["loader"].at = "themes"]
    /\ UNCHANGED <<mu, sessions, now, steps, ret>>

\* the walk of the theme directory visits its next file
LoadTheme ==
    /\ pc["loader"].at = "themes"
    /\ LET me == pc["loader"]
           st == LoadThemeFile([locations |-> locations, themes |-> themes,
                                loadErrors |-> me.loadErrors], me.themeFiles[me.i])
       IN  IF me.i > Len(me.themeFiles)
           THEN /\ pc' = [pc EXCEPT !["loader"].at = "locations", !["loader"].i = 1]
                /\ UNCHANGED themes
           ELSE /\ themes' = st.themes
                /\ pc' = [pc EXCEPT !["loader"].i = @ + 1,
                                    !["loader"].loadErrors = st.loadErrors]
    /\ UNCHANGED <<locations, mu, sessions, now, steps, ret>>

\* the walk of the location directory visits its next file
LoadLocation ==
    /\ pc["loader"].at = "locations"
    /\ LET me == pc["loader"]
           st == LoadLocationFile([locations |-> locations, themes |-> themes,
                                   loadErrors |-> me.loadErrors], me.locationFiles[me.i])
       IN  IF me.i > Len(me.locationFiles)
           THEN /\ pc' = [pc EXCEPT !["loader"].at = "validate"]
                /\ UNCHANGED locations
           ELSE /\ locations' = st.locations
                /\ pc' = [pc EXCEPT !["loader"].i = @ + 1,
                                    !["loader"].loadErrors = st.loadErrors]
    /\ UNCHANGED <<themes, mu, sessions, now, steps, ret>>

\* the adjacency validation, the return and the deferred Unlock()
LoadReturn ==
    /\ pc["loader"].at = "validate"
    /\ LET me == pc["loader"]
           st == ValidateAdjacency([locations |-> locations, themes |-> themes,
                                    loadErrors |-> me.loadErrors])
       IN  ret' = [op |-> "LoadWorldData", locationFiles |-> me.locationFiles,
                   themeFiles |-> me.themeFiles,
                   err |-> IF st.loadErrors # {} THEN ErrWorldLoad ELSE NoError,
                   loadErrors |-> st.loadErrors]
    /\ pc' = [pc EXCEPT !["loader"] = Idle]
    /\ mu' = [mu EXCEPT !.ws.writer = "none"]
    /\ UNCHANGED <<locations, themes, sessions, now, steps>>

\* variant: a read query enters without waiting for an announced writer
ReadLockNoWait(reader, query) ==
    /\ pc[reader].at = "idle"
    /\ mu' = [mu EXCEPT !.ws.readers = @ \cup {reader}]
    /\ pc' = [pc EXCEPT ![reader] = [at |-> "read", query |-> query]]
    /\ UNCHANGED <<locations, themes, sessions, now, steps, ret>>

\* ws.mu.RLock() of a read query
ReadLock(reader, query) ==
    /\ pc[reader].at = "idle"
    /\ mu.ws.writer = "none"
    /\ mu' = [mu EXCEPT !.ws.readers = @ \cup {reader}]
    /\ pc' = [pc EXCEPT ![reader] = [at |-> "read", query |-> query]]
    /\ UNCHANGED <<locations, themes, sessions, now, steps, ret>>

\* the query reads the maps, returns, and the deferred RUnlock() runs
ReadReturn(reader) ==
    /\ pc[reader].at = "read"
    /\ ret' = [op |-> "Read", by |-> reader, query |-> pc[reader].query,
               result |-> Answer(pc[reader].query, locations, themes),
               load |-> pc["loader"].at]
    /\ mu' = [mu EXCEPT !.ws.readers = @ \ {reader}]
    /\ pc' = [pc EXCEPT ![reader] = Idle]
    /\ UNCHANGED <<locations, themes, sessions, now, steps>>

NextWorldRace ==
    \/ LoadLock
    \/ LoadClear
    \/ LoadTheme
    \/ LoadLocation
    \/ LoadReturn
    \/ \E reader \in Readers, query \in Queries : ReadLock(reader, query)
    \/ \E reader \in Readers : ReadReturn(reader)

SpecWorldRace == InitWorldRace /\ [][NextWorldRace]_vars

(***************************************************************************)
(* SpecAdjRace : the loader of SpecWorldRace with readers that call        *)
(* GetAdjacentLocations, which takes the read lock twice: in GetLocation,  *)
(* and again to resolve the adjacency list of the record it got.  Each     *)
(* critical section of a reader is one step, taken while no writer is      *)
(* announced.                                                              *)
(***************************************************************************)
AdjQueryIDs == {"village", "gate"}

\* ws.GetLocation(locationID) with its own RLock and RUnlock; a location
\* that is not found ends the call
AdjGetLocation(reader, locationID) ==
    /\ pc[reader].at = "idle"
    /\ mu.ws.writer = "none"
    /\ LET currentLoc == GetLocation(locations, locationID)
       IN  IF ~currentLoc.found
           THEN /\ ret' = [op |-> "GetAdjacentLocations", by |-> reader,
                           id |-> locationID,
                           result |-> [found |-> FALSE, nodes |-> <<>>],
                           before |-> locations, after |-> locations, loads |-> 0]
                /\ UNCHANGED pc
           ELSE /\ pc' = [pc EXCEPT ![reader] =
                             [at |-> "resolve", id |-> locationID,
                              currentLoc |-> currentLoc.node,
                              before |-> locations, started |-> steps]]
                /\ UNCHANGED ret
    /\ UNCHANGED <<locations, themes, mu, sessions, now, steps>>

\* the second RLock, the loop over currentLoc.AdjacentIDs and the return
AdjResolve(reader) ==
    /\ pc[reader].at = "resolve"
    /\ mu.ws.writer = "none"
    /\ ret' = [op |-> "GetAdjacentLocations", by |-> reader, id |-> pc[reader].id,
               result |-> [found |-> TRUE,
                           nodes |-> ResolveAdjacent(locations,
                                         pc[reader].currentLoc.AdjacentIDs, 1)],
               before |-> pc[reader].before, after |-> locations,
               loads |-> steps - pc[reader].started]
    /\ pc' = [pc EXCEPT ![reader] = Idle]
    /\ UNCHANGED <<locations, themes, mu, sessions, now, steps>>

NextAdjRace ==
    \/ LoadLock
    \/ LoadClear
    \/ LoadTheme
    \/ LoadLocation
    \/ LoadReturn
    \/ \E reader \in Readers, locationID \in AdjQueryIDs : AdjGetLocation(reader, locationID)
    \/ \E reader \in Readers : AdjResolve(reader)

SpecAdjRace == InitWorldRace /\ [][NextAdjRace]_vars

(***************************************************************************)
(* SpecTurnRace : two goroutines, each running ProcessPlayerInput once on  *)
(* its own session, one step at a time: the fetch, the recording of the    *)
(* input, the context, the generator call, every action of the loop of     *)
(* ExecuteActions, and the update with the return.  The graph is fixed.    *)
(* The critical sections of the store and of the world are single steps.   *)
(***************************************************************************)
Turners == {"turn1", "turn2"}
SessionOf(p) == IF p = "turn1" THEN SessionID("p1", 0) ELSE SessionID("p2", 0)

\* what the generator answers in the racing turns
RaceOutcomes ==
    {[err |-> "transport error", response |-> LLMResponse(<<>>, <<>>, <<>>)]}
    \cup {[err |-> NoError, response |-> LLMResponse(<<Text("story")>>, <<"look around">>, a)] :
             a \in {<<>>, <<MoveTo("village")>>,
                    <<MoveTo("gate"), LLMAction(AddItem, Absent)>>,
                    <<MoveTo("keep"), MoveTo("gate")>>}}

InitTurnRace ==
    /\ locations \in Graphs
    /\ \E loc \in {"village", NoSuchID} :
          sessions = [id \in {SessionOf(p) : p \in Turners} |->
                         IF id = SessionOf("turn1")
                         THEN ExecSession("gate", <<>>)
                         ELSE [ID |-> id,
                               Player |-> NewCharacter("p2", "Brook", "Scout", "Vault-Born"),
                               CurrentLocationID |-> loc, CreatedAt |-> 0,
                               LastActive |-> 0, RecentActions |-> FullLog]]
    /\ themes = NoThemes
    /\ mu = Unlocked
    /\ now \in 0..MaxTime
    /\ steps = 0
    /\ ret = NoRet
    /\ \E input \in PlayerInputs :
          pc = [p \in Turners |->
                   [at |-> "start", sid |-> SessionOf(p), input |-> input,
                    before |-> sessions[SessionOf(p)], generated |-> NoRet,
                    i |-> 1, errors |-> <<>>, err |-> NoError,
                    response |-> NoResponse]]

\* SessionManager.GetSession
TurnGetSession(p) ==
    /\ pc[p].at = "start"
    /\ LET got == GetSessionResult(sessions, pc[p].sid, now)
       IN  /\ sessions' = got.store
           /\ pc' = [pc EXCEPT ![p].at = IF got.err # NoError THEN "done" ELSE "record",
                               ![p].err = IF got.err # NoError THEN ErrRetrieveSession
                                                              ELSE NoError]
    /\ UNCHANGED <<locations, themes, mu, now, steps, ret>>

\* currentSession.AddRecentAction("Player: " + playerInput)
TurnRecordInput(p) ==
    /\ pc[p].at = "record"
    /\ sessions' = [sessions EXCEPT
                       ![pc[p].sid] = AddRecentAction(@, PlayerEntry(pc[p].input))]
    /\ pc' = [pc EXCEPT ![p].at = "context"]
    /\ UNCHANGED <<locations, themes, mu, now, steps, ret>>

\* buildPromptContext
TurnBuildContext(p) ==
    /\ pc[p].at = "context"
    /\ LET ctx == buildPromptContext(locations, sessions[pc[p].sid])
       IN  pc' = [pc EXCEPT ![p].at = IF ctx.err # NoError THEN "done" ELSE "generate",
                            ![p].err = ctx.err]
    /\ UNCHANGED <<locations, themes, mu, sessions, now, steps, ret>>

\* LLMAdapter.GenerateResponse returns
TurnGenerate(p) ==
    /\ pc[p].at = "generate"
    /\ \E generated \in RaceOutcomes :
          pc' = [pc EXCEPT ![p].generated = generated,
                           ![p].at = IF generated.err # NoError THEN "done" ELSE "execute",
                           ![p].err = IF generated.err # NoError THEN ErrLLMAdapter
                                                                  ELSE NoError]
    /\ UNCHANGED <<locations, themes, mu, sessions, now, steps, ret>>

\* the loop working on one session whatever the turn
TurnExecuteSharedSession(p) ==
    /\ pc[p].at = "execute"
    /\ LET actions == pc[p].generated.response.Actions
           shared == SessionOf("turn1")
           r == ExecuteOne(locations, actions[pc[p].i], sessions[shared])
       IN  IF pc[p].i > Len(actions)
           THEN /\ pc' = [pc EXCEPT ![p].at = "update"]
                /\ UNCHANGED sessions
           ELSE /\ sessions' = [sessions EXCEPT ![shared] = r.session]
                /\ pc' = [pc EXCEPT
                             ![p].i = @ + 1,
                             ![p].errors = IF r.err # NoError
                                           THEN Append(@, WrappedErr(actions[pc[p].i], r.err))
                                           ELSE @]
    /\ UNCHANGED <<locations, themes, mu, now, steps, ret>>

\* one iteration of the loop of ExecuteActions, or its end
TurnExecute(p) ==
    /\ pc[p].at = "execute"
    /\ LET actions == pc[p].generated.response.Actions
           r == ExecuteOne(locations, actions[pc[p].i], sessions[pc[p].sid])
       IN  IF pc[p].i > Len(actions)
           THEN /\ pc' = [pc EXCEPT ![p].at = "update"]
                /\ UNCHANGED sessions
           ELSE /\ sessions' = [sessions EXCEPT ![pc[p].sid] = r.session]
                /\ pc' = [pc EXCEPT
                             ![p].i = @ + 1,
                             ![p].errors = IF r.err # NoError
                                           THEN Append(@, WrappedErr(actions[pc[p].i], r.err))
                                           ELSE @]
    /\ UNCHANGED <<locations, themes, mu, now, steps, ret>>

\* the annotation of the narrative, SessionManager.UpdateSession and the return
TurnUpdate(p) ==
    /\ pc[p].at = "update"
    /\ LET updated == UpdateSessionResult(sessions, sessions[pc[p].sid], TRUE, now)
           finalResponse ==
               IF Len(pc[p].errors) > 0
               THEN [pc[p].generated.response EXCEPT
                        !.Narrative = <<ErrorNarrative(Len(pc[p].errors))>> \o @]
               ELSE pc[p].generated.response
       IN  /\ sessions' = updated.store
           /\ pc' = [pc EXCEPT ![p].at = "done", ![p].response = finalResponse]
    /\ UNCHANGED <<locations, themes, mu, now, steps, ret>>

NextTurnRace ==
    \E p \in Turners :
        \/ TurnGetSession(p)
        \/ TurnRecordInput(p)
        \/ TurnBuildContext(p)
        \/ TurnGenerate(p)
        \/ TurnExecute(p)
        \/ TurnUpdate(p)

SpecTurnRace == InitTurnRace /\ [][NextTurnRace]_vars

(***************************************************************************)
(* SpecSameSession : the two goroutines of SpecTurnRace both running a     *)
(* turn on ONE session.  GetSession hands both the same *GameSession and    *)
(* nothing orders their accesses to its fields.  CurrentLocationID is a Go  *)
(* string, a data pointer and a length written by two separate stores, so   *)
(* the store of a move is two steps, in either order, and the field reads   *)
(* as whatever pointer and length it holds at the time.                     *)
(***************************************************************************)
\* the bytes a string header with the data of id and the length n reads as
StringOf(id, n) ==
    IF n = 4
    THEN (IF id = "village" THEN "vill" ELSE id)
    ELSE (IF id = "village" THEN id
          ELSE IF id = "gate" THEN "gate???" ELSE "keep???")

\* the data pointer and the length a string value is made of
DataOf(s) ==
    CASE s \in {"village", "vill"} -> "village"
      [] s \in {"gate", "gate???"} -> "gate"
      [] OTHER -> "keep"
LengthOf(s) == IF s \in {"village", "gate???", "keep???"} THEN 7 ELSE 4

Words == {"data", "length"}

\* the field after one of the two stores of the assignment of target
StoreWord(current, target, word) ==
    IF word = "data"
    THEN StringOf(DataOf(target), LengthOf(current))
    ELSE StringOf(DataOf(current), LengthOf(target))

InitSameSession ==
    /\ locations \in Graphs
    /\ sessions = [id \in {SessionOf("turn1")} |-> ExecSession("gate", <<>>)]
    /\ themes = NoThemes
    /\ mu = Unlocked
    /\ now \in 0..MaxTime
    /\ steps = 0
    /\ ret = NoRet
    /\ \E input \in PlayerInputs :
          pc = [p \in Turners |->
                   [at |-> "start", sid |-> SessionOf("turn1"), input |-> input,
                    before |-> sessions[SessionOf("turn1")], generated |-> NoRet,
                    i |-> 1, errors |-> <<>>, err |-> NoError,
                    response |-> NoResponse, target |-> "", first |-> "data"]]

\* one iteration of the loop of ExecuteActions up to the assignment of
\* handleUpdateLocation: an action that fails or moves nowhere is finished
\* here, a validated move goes on to its two stores
TurnCheck(p) ==
    /\ pc[p].at = "execute"
    /\ LET actions == pc[p].generated.response.Actions
           action == actions[pc[p].i]
           cur == sessions[pc[p].sid]
           r == Dispatch(locations, action, cur)
       IN  IF pc[p].i > Len(actions)
           THEN /\ pc' = [pc EXCEPT ![p].at = "update"]
                /\ UNCHANGED sessions
           ELSE IF r.err # NoError
           THEN /\ pc' = [pc EXCEPT ![p].i = @ + 1,
                                    ![p].errors = Append(@, WrappedErr(action, r.err))]
                /\ UNCHANGED sessions
           ELSE IF r.session.CurrentLocationID = cur.CurrentLocationID
           THEN /\ sessions' = [sessions EXCEPT
                                   ![pc[p].sid] = AddRecentAction(@, ExecutedEntry(action.Type))]
                /\ pc' = [pc EXCEPT ![p].i = @ + 1]
           ELSE /\ \E first \in Words :
                      pc' = [pc EXCEPT ![p].at = "store",
                                       ![p].target = r.session.CurrentLocationID,
                                       ![p].first = first]
                /\ UNCHANGED sessions
    /\ UNCHANGED <<locations, themes, mu, now, steps, ret>>

\* the first store of currentSession.CurrentLocationID = targetLocationID
TurnStoreFirst(p) ==
    /\ pc[p].at = "store"
    /\ sessions' = [sessions EXCEPT
                       ![pc[p].sid].CurrentLocationID = StoreWord(@, pc[p].target, pc[p].first)]
    /\ pc' = [pc EXCEPT ![p].at = "stored"]
    /\ UNCHANGED <<locations, themes, mu, now, steps, ret>>

\* the second store, the return of the handler and the audit entry
TurnStoreSecond(p) ==
    /\ pc[p].at = "stored"
    /\ LET word == IF pc[p].first = "data" THEN "length" ELSE "data"
           action == pc[p].generated.response.Actions[pc[p].i]
       IN  sessions' = [sessions EXCEPT
                           ![pc[p].sid] =
                               AddRecentAction(
                                   [@ EXCEPT !.CurrentLocationID =
                                                 StoreWord(@, pc[p].target, word)],
                                   ExecutedEntry(action.Type))]
    /\ pc' = [pc EXCEPT ![p].at = "execute", ![p].i = @ + 1]
    /\ UNCHANGED <<locations, themes, mu, now, steps, ret>>

NextSameSession ==
    \E p \in Turners :
        \/ TurnGetSession(p)
        \/ TurnRecordInput(p)
        \/ TurnBuildContext(p)
        \/ TurnGenerate(p)
        \/ TurnCheck(p)
        \/ TurnStoreFirst(p)
        \/ TurnStoreSecond(p)
        \/ TurnUpdate(p)

SpecSameSession == InitSameSession /\ [][NextSameSession]_vars

(***************************************************************************)
(* SpecLive : two turns, one call of the store (a create or a get) and one *)
(* load of the world running together, every goroutine taking one step at *)
(* a time and every Lock, RLock and release being a step.  mu.sm is the    *)
(* RWMutex of the store, mu.ws the one of the world, both as in            *)
(* SpecWorldRace.  A step that releases a lock also does what the code     *)
(* does while holding it.                                                  *)
(***************************************************************************)
Callers == Turners \cup {"client"}

\* what the generator answers in these turns
LiveOutcomes ==
    {[err |-> "transport error", response |-> LLMResponse(<<>>, <<>>, <<>>)]}
    \cup {[err |-> NoError, response |-> LLMResponse(<<Text("story")>>, <<"look around">>, a)] :
             a \in {<<MoveTo("village")>>, <<LLMAction(AddItem, Absent), MoveTo("gate")>>}}

\* the calls of the client: a get of a tracked and of an unknown session, a create
ClientCalls ==
    {[op |-> "get", sid |-> SessionOf("turn1")],
     [op |-> "get", sid |-> UnknownSessionID],
     [op |-> "create", sid |-> SessionID("p3", 0)]}

Call(op, at, sid, before) ==
    [op |-> op, at |-> at, sid |-> sid, input |-> "look", before |-> before,
     generated |-> NoRet, i |-> 1, errors |-> <<>>, err |-> NoError,
     response |-> NoResponse, currentLoc |-> LocationNode("", <<>>)]

InitLive ==
    /\ locations = TwoWayGraph
    /\ themes = NoThemes
    /\ mu = Unlocked
    /\ sessions = [id \in {SessionOf(p) : p \in Turners} |->
                      IF id = SessionOf("turn1")
                      THEN ExecSession("gate", <<>>)
                      ELSE [ID |-> id,
                            Player |-> NewCharacter("p2", "Brook", "Scout", "Vault-Born"),
                            CurrentLocationID |-> "village", CreatedAt |-> 0,
                            LastActive |-> 0, RecentActions |-> FullLog]]
    /\ now = MaxTime
    /\ steps = MaxLoads - 1
    /\ ret = NoRet
    /\ \E call \in ClientCalls :
          pc = [p \in Callers \cup {"loader"} |->
                   IF p = "loader" THEN Idle
                   ELSE IF p = "client"
                   THEN Call(call.op, IF call.op = "create" THEN "create" ELSE "start",
                             call.sid, NilSession)
                   ELSE Call("turn", "start", SessionOf(p), sessions[SessionOf(p)])]

\* a call has returned: with an error, or a turn with its result
Return(p, err) == [pc EXCEPT ![p].at = "done", ![p].err = err]

\* sm.mu.RLock() of GetSession
SmRLock(p) ==
    /\ pc[p].at = "start"
    /\ mu.sm.writer = "none"
    /\ mu' = [mu EXCEPT !.sm.readers = @ \cup {p}]
    /\ pc' = [pc EXCEPT ![p].at = "lookup"]
    /\ UNCHANGED <<locations, themes, sessions, now, steps, ret>>

\* the lookup of GetSession and sm.mu.RUnlock(); an unknown id ends the call
SmLookup(p) ==
    /\ pc[p].at = "lookup"
    /\ mu' = [mu EXCEPT !.sm.readers = @ \ {p}]
    /\ pc' = IF pc[p].sid \notin DOMAIN sessions
             THEN Return(p, IF pc[p].op = "turn" THEN ErrRetrieveSession
                                                 ELSE ErrSessionNotFound)
             ELSE [pc EXCEPT ![p].at = "touch"]
    /\ UNCHANGED <<locations, themes, sessions, now, steps, ret>>

\* sm.mu.Lock() is called, by GetSession, UpdateSession or CreateNewSession:
\* the writer is announced
SmLock(p) ==
    /\ pc[p].at \in {"touch", "update", "create"}
    /\ mu.sm.writer = "none"
    /\ mu' = [mu EXCEPT !.sm.writer = p]
    /\ pc' = [pc EXCEPT ![p].at = CASE pc[p].at = "touch" -> "touching"
                                    [] pc[p].at = "update" -> "updating"
                                    [] OTHER -> "creating"]
    /\ UNCHANGED <<locations, themes, sessions, now, steps, ret>>

\* Lock() returns once no reader is inside; GetSession refreshes LastActive,
\* unlocks and returns the session
SmTouch(p) ==
    /\ pc[p].at = "touching"
    /\ mu.sm.readers = {}
    /\ sessions' = [sessions EXCEPT ![pc[p].sid].LastActive = now]
    /\ mu' = [mu EXCEPT !.sm.writer = "none"]
    /\ pc' = IF pc[p].op = "turn" THEN [pc EXCEPT ![p].at = "record"]
                                  ELSE Return(p, NoError)
    /\ UNCHANGED <<locations, themes, now, steps, ret>>

\* CreateNewSession under the lock, and its deferred Unlock()
SmCreate(p) ==
    /\ pc[p].at = "creating"
    /\ mu.sm.readers = {}
    /\ IF pc[p].sid \in DOMAIN sessions
       THEN /\ pc' = Return(p, ErrIDCollision)
            /\ UNCHANGED sessions
       ELSE /\ sessions' = [id \in DOMAIN sessions \cup {pc[p].sid} |->
                               IF id = pc[p].sid
                               THEN [ID |-> id,
                                     Player |-> NewCharacter("p3", "Cole", "Medic", "Dustwalker"),
                                     CurrentLocationID |-> "gate", CreatedAt |-> now,
                                     LastActive |-> now, RecentActions |-> <<>>]
                               ELSE sessions[id]]
            /\ pc' = Return(p, NoError)
    /\ mu' = [mu EXCEPT !.sm.writer = "none"]
    /\ UNCHANGED <<locations, themes, now, steps, ret>>

\* ws.mu.RLock() of GetLocation (called by buildPromptContext and again by
\* GetAdjacentLocations), of the loop of GetAdjacentLocations and of IsAdjacent
WsRLock(p) ==
    /\ pc[p].at \in {"context", "adjacent", "resolve", "move"}
    /\ mu.ws.writer = "none"
    /\ mu' = [mu EXCEPT !.ws.readers = @ \cup {p}]
    /\ pc' = [pc EXCEPT ![p].at = CASE pc[p].at = "context" -> "in context"
                                    [] pc[p].at = "adjacent" -> "in adjacent"
                                    [] pc[p].at = "resolve" -> "in resolve"
                                    [] OTHER -> "in move"]
    /\ UNCHANGED <<locations, themes, sessions, now, steps, ret>>

\* GetLocation of buildPromptContext returns: a location that does not
\* resolve fails the turn
ContextGetLocation(p) ==
    /\ pc[p].at = "in context"
    /\ mu' = [mu EXCEPT !.ws.readers = @ \ {p}]
    /\ pc' = IF GetLocation(locations, sessions[pc[p].sid].CurrentLocationID).found
             THEN [pc EXCEPT ![p].at = "adjacent"]
             ELSE Return(p, ErrBuildContext)
    /\ UNCHANGED <<locations, themes, sessions, now, steps, ret>>

\* GetLocation of GetAdjacentLocations returns: on an error the context
\* goes on with no adjacent location
AdjacentGetLocation(p) ==
    /\ pc[p].at = "in adjacent"
    /\ mu' = [mu EXCEPT !.ws.readers = @ \ {p}]
    /\ LET currentLoc == GetLocation(locations, sessions[pc[p].sid].CurrentLocationID)
       IN  pc' = IF currentLoc.found
                 THEN [pc EXCEPT ![p].at = "resolve", ![p].currentLoc = currentLoc.node]
                 ELSE [pc EXCEPT ![p].at = "generate"]
    /\ UNCHANGED <<locations, themes, sessions, now, steps, ret>>

\* the loop of GetAdjacentLocations and its deferred RUnlock(); the context
\* is built
AdjacentResolve(p) ==
    /\ pc[p].at = "in resolve"
    /\ mu' = [mu EXCEPT !.ws.readers = @ \ {p}]
    /\ pc' = [pc EXCEPT ![p].at = "generate"]
    /\ UNCHANGED <<locations, themes, sessions, now, steps, ret>>

\* the generator returns
LiveGenerate(p) ==
    /\ pc[p].at = "generate"
    /\ \E generated \in LiveOutcomes :
          pc' = IF generated.err # NoError
                THEN Return(p, ErrLLMAdapter)
                ELSE [pc EXCEPT ![p].generated = generated, ![p].at = "execute"]
    /\ UNCHANGED <<locations, themes, mu, sessions, now, steps, ret>>

\* one iteration of the loop of ExecuteActions that does not reach
\* IsAdjacent, the way into one that does, or the end of the loop
LiveExecute(p) ==
    /\ pc[p].at = "execute"
    /\ LET actions == pc[p].generated.response.Actions
           action == actions[pc[p].i]
           r == ExecuteOne(locations, action, sessions[pc[p].sid])
       IN  IF pc[p].i > Len(actions)
           THEN /\ pc' = [pc EXCEPT ![p].at = "update"]
                /\ UNCHANGED sessions
           ELSE IF r.lookups > 0
           THEN /\ pc' = [pc EXCEPT ![p].at = "move"]
                /\ UNCHANGED sessions
           ELSE /\ sessions' = [sessions EXCEPT ![pc[p].sid] = r.session]
                /\ pc' = [pc EXCEPT
                             ![p].i = @ + 1,
                             ![p].errors = IF r.err # NoError
                                           THEN Append(@, WrappedErr(action, r.err))
                                           ELSE @]
    /\ UNCHANGED <<locations, themes, mu, now, steps, ret>>

\* IsAdjacent answers and its deferred RUnlock() runs; the move is taken or
\* refused on that answer
LiveMove(p) ==
    /\ pc[p].at = "in move"
    /\ mu' = [mu EXCEPT !.ws.readers = @ \ {p}]
    /\ LET action == pc[p].generated.response.Actions[pc[p].i]
           r == ExecuteOne(locations, action, sessions[pc[p].sid])
       IN  /\ sessions' = [sessions EXCEPT ![pc[p].sid] = r.session]
           /\ pc' = [pc EXCEPT
                        ![p].at = "execute",
                        ![p].i = @ + 1,
                        ![p].errors = IF r.err # NoError
                                      THEN Append(@, WrappedErr(action, r.err))
                                      ELSE @]
    /\ UNCHANGED <<locations, themes, now, steps, ret>>

\* variant: UpdateSession returns without unlocking
SmUpdateKeepsLock(p) ==
    /\ pc[p].at = "updating"
    /\ mu.sm.readers = {}
    /\ LET updated == UpdateSessionResult(sessions, sessions[pc[p].sid], TRUE, now)
       IN  /\ sessions' = updated.store
           /\ pc' = [pc EXCEPT
                        ![p].at = "done",
                        ![p].response =
                            IF Len(pc[p].errors) > 0
                            THEN [pc[p].generated.response EXCEPT
                                     !.Narrative = <<ErrorNarrative(Len(pc[p].errors))>> \o @]
                            ELSE pc[p].generated.response]
    /\ UNCHANGED <<mu, locations, themes, now, steps, ret>>

\* UpdateSession under the lock, its deferred Unlock() and the return of the turn
SmUpdate(p) ==
    /\ pc[p].at = "updating"
    /\ mu.sm.readers = {}
    /\ LET updated == UpdateSessionResult(sessions, sessions[pc[p].sid], TRUE, now)
       IN  /\ sessions' = updated.store
           /\ pc' = [pc EXCEPT
                        ![p].at = "done",
                        ![p].response =
                            IF Len(pc[p].errors) > 0
                            THEN [pc[p].generated.response EXCEPT
                                     !.Narrative = <<ErrorNarrative(Len(pc[p].errors))>> \o @]
                            ELSE pc[p].generated.response]
    /\ mu' = [mu EXCEPT !.sm.writer = "none"]
    /\ UNCHANGED <<locations, themes, now, steps, ret>>

\* the next step of a caller
CallerStep(p) ==
    \/ SmRLock(p)
    \/ SmLookup(p)
    \/ SmLock(p)
    \/ SmTouch(p)
    \/ SmCreate(p)
    \/ TurnRecordInput(p)
    \/ WsRLock(p)
    \/ ContextGetLocation(p)
    \/ AdjacentGetLocation(p)
    \/ AdjacentResolve(p)
    \/ LiveGenerate(p)
    \/ LiveExecute(p)
    \/ LiveMove(p)
    \/ SmUpdate(p)

\* the next step of the load
LoaderStep ==
    \/ LoadLock
    \/ LoadClear
    \/ LoadTheme
    \/ LoadLocation
    \/ LoadReturn

NextLive ==
    \/ \E p \in Callers : CallerStep(p)
    \/ LoaderStep

\* every goroutine that can take a step is scheduled in the end
Fairness ==
    /\ \A p \in Callers : WF_vars(CallerStep(p))
    /\ WF_vars(LoaderStep)

SpecLive == InitLive /\ [][NextLive]_vars /\ Fairness

(***************************************************************************)
(* SpecCreate : the session-creation interface of the server, the handler  *)
(* of /create_session and createDefaultSession, over a graph loaded once.  *)
(***************************************************************************)
EmptyGraph == <<>>
DefaultStartLocationID == "oakhaven_gate"

\* the sample data: the default start location and one neighbour
SampleGraph ==
    [id \in {DefaultStartLocationID, "gate"} |->
        LocationNode(id, IF id = "gate" THEN <<DefaultStartLocationID>> ELSE <<"gate">>)]

CreateGraphs == Graphs \cup {EmptyGraph, SampleGraph}

\* strings.ToLower on the player names used
ToLower(name) == IF name = "Ash" THEN "ash" ELSE name

\* a player id is "player_<lower-case name>_<nanoseconds>"
PlayerID(playerName, t) == <<"player", ToLower(playerName), t>>

\* "player_default", the one player id without a timestamp
DefaultPlayerID == <<"player", "default", -1>>

\* the decoded request bodies, and a body that does not decode
CreateRequest(playerName, className, originName, startLocationID) ==
    [PlayerName |-> playerName, ClassName |-> className, OriginName |-> originName,
     StartLocationID |-> startLocationID]
Malformed == [PlayerName |-> "", ClassName |-> "", OriginName |-> "",
              StartLocationID |-> "", malformed |-> TRUE]
CreateRequests ==
    {CreateRequest(n, "Courier", "", s) :
        n \in {"", "Ash", "ash"}, s \in {"", "gate", NoSuchID}}
    \cup {Malformed}
Methods == {"POST", "GET"}

StatusCreated == 201
StatusBadRequest == 400
StatusMethodNotAllowed == 405
StatusInternalServerError == 500

InitCreate ==
    /\ locations \in CreateGraphs
    /\ sessions = <<>>
    /\ now = 0
    /\ steps = 0
    /\ ret = NoRet
    /\ Quiet

\* the reply of the handler that leaves the store alone
Refuse(method, req, status) ==
    /\ ret' = [op |-> "handleCreateSession", method |-> method, req |-> req,
               status |-> status, sid |-> NilSession]
    /\ UNCHANGED <<sessions, now>>

\* the handler creating the session without looking the start location up
handleCreateSessionNoLookup(method, req) ==
    /\ IF method # "POST"
       THEN Refuse(method, req, StatusMethodNotAllowed)
       ELSE IF req = Malformed
       THEN Refuse(method, req, StatusBadRequest)
       ELSE IF req.PlayerName = "" \/ req.StartLocationID = ""
       THEN Refuse(method, req, StatusBadRequest)
       ELSE \E idAt \in now..MaxTime :
               LET player == NewCharacter(PlayerID(req.PlayerName, now), req.PlayerName,
                                          req.ClassName, req.OriginName)
                   newID == SessionID(player.ID, idAt)
               IN  IF newID \in DOMAIN sessions
                   THEN /\ ret' = [op |-> "handleCreateSession", method |-> method,
                                   req |-> req, status |-> StatusInternalServerError,
                                   sid |-> NilSession]
                        /\ now' = idAt
                        /\ UNCHANGED sessions
                   ELSE /\ Cardinality(DOMAIN sessions) < MaxSessions
                        /\ \E createdAt \in idAt..MaxTime :
                              \E lastActive \in createdAt..MaxTime :
                                 LET sess == [ID |-> newID, Player |-> player,
                                              CurrentLocationID |-> req.StartLocationID,
                                              CreatedAt |-> createdAt,
                                              LastActive |-> lastActive,
                                              RecentActions |-> <<>>]
                                 IN  /\ sessions' = [id \in DOMAIN sessions \cup {newID} |->
                                                        IF id = newID THEN sess
                                                        ELSE sessions[id]]
                                     /\ now' = lastActive
                                     /\ ret' = [op |-> "handleCreateSession",
                                                method |-> method, req |-> req,
                                                status |-> StatusCreated, sid |-> newID]
    /\ UNCHANGED <<locations, themes, mu, pc, steps>>

handleCreateSession(method, req) ==
    /\ IF method # "POST"
       THEN Refuse(method, req, StatusMethodNotAllowed)
       ELSE IF req = Malformed
       THEN Refuse(method, req, StatusBadRequest)
       ELSE IF req.PlayerName = "" \/ req.StartLocationID = ""
       THEN Refuse(method, req, StatusBadRequest)
       ELSE IF ~GetLocation(locations, req.StartLocationID).found
       THEN Refuse(method, req, StatusBadRequest)
       ELSE \E idAt \in now..MaxTime :
               LET player == NewCharacter(PlayerID(req.PlayerName, now), req.PlayerName,
                                          req.ClassName, req.OriginName)
                   newID == SessionID(player.ID, idAt)
               IN  IF newID \in DOMAIN sessions
                   THEN /\ ret' = [op |-> "handleCreateSession", method |-> method,
                                   req |-> req, status |-> StatusInternalServerError,
                                   sid |-> NilSession]
                        /\ now' = idAt
                        /\ UNCHANGED sessions
                   ELSE /\ Cardinality(DOMAIN sessions) < MaxSessions
                        /\ \E createdAt \in idAt..MaxTime :
                              \E lastActive \in createdAt..MaxTime :
                                 LET sess == [ID |-> newID, Player |-> player,
                                              CurrentLocationID |-> req.StartLocationID,
                                              CreatedAt |-> createdAt,
                                              LastActive |-> lastActive,
                                              RecentActions |-> <<>>]
                                 IN  /\ sessions' = [id \in DOMAIN sessions \cup {newID} |->
                                                        IF id = newID THEN sess
                                                        ELSE sessions[id]]
                                     /\ now' = lastActive
                                     /\ ret' = [op |-> "handleCreateSession",
                                                method |-> method, req |-> req,
                                                status |-> StatusCreated, sid |-> newID]
    /\ UNCHANGED <<locations, themes, mu, pc, steps>>

\* the default player starts at the default location, or at whichever
\* location the listing gives first when the default one is not loaded
createDefaultSession ==
    /\ IF DOMAIN sessions # {} \/ GetAllLocationIDs(locations) = {}
       THEN /\ ret' = [op |-> "createDefaultSession", created |-> FALSE,
                       sid |-> NilSession]
            /\ UNCHANGED <<sessions, now>>
       ELSE \E first \in GetAllLocationIDs(locations) :
               LET player == NewCharacter(DefaultPlayerID, "Ash", "Wasteland-Born", "Courier")
                   startLocationID ==
                       IF GetLocation(locations, DefaultStartLocationID).found
                       THEN DefaultStartLocationID ELSE first
                   newID == SessionID(player.ID, now)
               IN  \E createdAt \in now..MaxTime :
                      \E lastActive \in createdAt..MaxTime :
                         /\ sessions' = [id \in {newID} |->
                                            [ID |-> newID, Player |-> player,
                                             CurrentLocationID |-> startLocationID,
                                             CreatedAt |-> createdAt,
                                             LastActive |-> lastActive,
                                             RecentActions |-> <<>>]]
                         /\ now' = lastActive
                         /\ ret' = [op |-> "createDefaultSession", created |-> TRUE,
                                    sid |-> newID]
    /\ UNCHANGED <<locations, themes, mu, pc, steps>>

NextCreate ==
    \/ \E method \in Methods, req \in CreateRequests : handleCreateSession(method, req)
    \/ createDefaultSession
    \/ Tick

SpecCreate == InitCreate /\ [][NextCreate]_vars

(***************************************************************************)
(* SpecFrame : one operation of any kind, a create, a get, an update, a    *)
(* turn or a direct call of the executor with one action, on a store that  *)
(* holds one session.                                                      *)
(***************************************************************************)
\* a direct call ExecuteActions([action], session) on a stored session
CallExecuteSingle ==
    \E sid \in DOMAIN sessions, action \in ActionAlphabet :
        LET r == ExecuteActions(locations, <<action>>, sessions[sid])
        IN  /\ sessions' = [sessions EXCEPT ![sid] = r.session]
            /\ ret' = [op |-> "ExecuteActions", sid |-> sid, actions |-> <<action>>,
                       before |-> sessions[sid], errors |-> r.errors,
                       iterations |-> r.iterations]
            /\ UNCHANGED <<locations, themes, mu, pc, now, steps>>

NextFrame ==
    \/ \E player \in Players, startLocationID \in StartIDs :
          ret.op = "none" /\ CreateNewSession(player, startLocationID)
    \/ \E sessionID \in DOMAIN sessions \cup {UnknownSessionID} :
          ret.op = "none" /\ GetSession(sessionID)
    \/ \E arg \in UpdateArgs : ret.op = "none" /\ UpdateSession(arg.session, arg.aliased)
    \/ ret.op = "none" /\ ProcessPlayerInput
    \/ ret.op = "none" /\ CallExecuteSingle

SpecFrame == InitTurn /\ [][NextFrame]_vars

(***************************************************************************)
(* SpecActive : creates, gets, updates and turns in any order while the    *)
(* clock moves on, the generator answering with one of the few results of  *)
(* RaceOutcomes and the store's own UpdateSession ending each turn.        *)
(***************************************************************************)
NextActive ==
    \/ \E player \in Players, startLocationID \in StartIDs :
          CreateNewSession(player, startLocationID)
    \/ \E sessionID \in DOMAIN sessions \cup {UnknownSessionID} : GetSession(sessionID)
    \/ \E arg \in UpdateArgs : UpdateSession(arg.session, arg.aliased)
    \/ ProcessPlayerInputWith(RaceOutcomes, {NoError})
    \/ Tick

SpecActive == Init /\ [][NextActive]_vars

(***************************************************************************)
(* Properties of the executor, read off what ExecuteActions returned.      *)
(***************************************************************************)
ExecReturned == ret.op \in {"ExecuteActions", "ExecuteActionsNil"}
ExecOnSession == ret.op = "ExecuteActions"

\* the loop iterations of the call that returned last
Iterations == IF ExecReturned THEN ret.iterations ELSE <<>>

Adjacent(L) == Range(locations[L].AdjacentIDs)
Exists(id) == id \in DOMAIN locations

\* an updateLocation action carrying a usable target
IsMove(a) ==
    /\ a.Type = UpdateLocation
    /\ a.Data.locationId.kind = "string"
    /\ a.Data.locationId.val # ""
Target(a) == a.Data.locationId.val

Failed(it) == it.err # NoError

\* C1: no teleport.  Whenever an action of a batch changes the session's
\* location from L to T, both exist in the graph and T is in L's stored
\* adjacency list; and a move to an existing T that is not in L's list is
\* refused and leaves the location at L, whatever T's own list holds.
NoTeleport ==
    \A i \in 1..Len(Iterations) :
        LET it == Iterations[i]
            L == it.before.CurrentLocationID
            T == it.after.CurrentLocationID
        IN  /\ T # L => (Exists(L) /\ Exists(T) /\ T \in Adjacent(L))
            /\ (/\ IsMove(it.action) /\ Target(it.action) # L
                /\ Exists(L) /\ Exists(Target(it.action))
                /\ Target(it.action) \notin Adjacent(L))
               => (Failed(it) /\ T = L)

\* gate -> village is taken, the way back village -> gate is refused although
\* village is in gate's list
NoTeleportWitness ==
    /\ ExecOnSession
    /\ locations = ChainGraph
    /\ Len(Iterations) = 2
    /\ Iterations[1].before.CurrentLocationID = "gate"
    /\ Iterations[1].after.CurrentLocationID = "village"
    /\ Iterations[2].action = MoveTo("gate")
    /\ Iterations[2].err = ErrNotAdjacent
    /\ sessions[ret.sid].CurrentLocationID = "village"

\* C2: every session held by the store has a current location that exists
\* in the world graph.
CurrentLocationExists ==
    \A sid \in DOMAIN sessions : Exists(sessions[sid].CurrentLocationID)

FailedErrors(its) ==
    LET failed == SelectSeq(its, Failed)
    IN  [k \in 1..Len(failed) |-> WrappedErr(failed[k].action, failed[k].err)]

KthFailure(its, k) ==
    CHOOSE i \in 1..Len(its) :
        /\ Failed(its[i])
        /\ Cardinality({j \in 1..i : Failed(its[j])}) = k

\* C4: per-action error isolation.  On a non-nil session every action of
\* the batch is attempted, in order, each on the session the one before it
\* left; a failed action changes nothing and stops nothing; the number of
\* errors returned is the number of failed actions and the k-th error is
\* that of the k-th failed action.
ErrorIsolation ==
    ExecOnSession =>
        /\ Len(Iterations) = Len(ret.actions)
        /\ \A i \in 1..Len(Iterations) :
              /\ Iterations[i].action = ret.actions[i]
              /\ Iterations[i].before =
                    (IF i = 1 THEN ret.before ELSE Iterations[i - 1].after)
              /\ Failed(Iterations[i]) => Iterations[i].after = Iterations[i].before
        /\ sessions[ret.sid] =
              (IF Iterations = <<>> THEN ret.before
               ELSE Iterations[Len(Iterations)].after)
        /\ Len(ret.errors) = Cardinality({i \in 1..Len(Iterations) : Failed(Iterations[i])})
        /\ \A k \in 1..Len(ret.errors) :
              LET i == KthFailure(Iterations, k)
              IN  ret.errors[k] = WrappedErr(ret.actions[i], Iterations[i].err)

\* two failures around the batch, and the move after the first one is applied
ErrorIsolationWitness ==
    /\ ExecOnSession
    /\ Len(ret.actions) = 3
    /\ Failed(Iterations[1])
    /\ ~Failed(Iterations[2])
    /\ Iterations[2].after.CurrentLocationID # Iterations[2].before.CurrentLocationID
    /\ Failed(Iterations[3])
    /\ Len(ret.errors) = 2

\* C5: actions are applied in list order, each validated against the
\* location the ones before it left.  With edges A->B and B->C and no edge
\* A->C, from A the batch [move B, move C] ends at C with no error, and
\* [move C, move B] gives an error for the first action only and ends at B.
AppliedInListOrder ==
    ExecOnSession =>
        \A A \in LocationIDs, B \in LocationIDs, C \in LocationIDs :
            (/\ A # B /\ B # C /\ A # C
             /\ Exists(A) /\ Exists(B) /\ Exists(C)
             /\ B \in Adjacent(A) /\ C \in Adjacent(B) /\ C \notin Adjacent(A)
             /\ ret.before.CurrentLocationID = A)
            => /\ ret.actions = <<MoveTo(B), MoveTo(C)>> =>
                    /\ ret.errors = <<>>
                    /\ sessions[ret.sid].CurrentLocationID = C
               /\ ret.actions = <<MoveTo(C), MoveTo(B)>> =>
                    /\ ret.errors = <<WrappedErr(MoveTo(C), ErrNotAdjacent)>>
                    /\ sessions[ret.sid].CurrentLocationID = B

\* gate -> village -> keep walked in one batch
AppliedInListOrderWitness ==
    /\ ExecOnSession
    /\ locations = ChainGraph
    /\ ret.before.CurrentLocationID = "gate"
    /\ ret.actions = <<MoveTo("village"), MoveTo("keep")>>
    /\ ret.errors = <<>>
    /\ sessions[ret.sid].CurrentLocationID = "keep"

\* the log after one more entry: the entry appended, the oldest one dropped
\* when the log was full
LogAfter(log, entry) ==
    IF Len(log) < maxRecentActions THEN log \o <<entry>> ELSE Tail(log) \o <<entry>>

\* C6: a move to an existing target T # L that is in L's adjacency list
\* succeeds, sets the location to T and, besides, only appends the entry
\* noting the executed updateLocation; id, character, CreatedAt (and
\* LastActive) stay as they were.
ValidMoveCommits ==
    \A i \in 1..Len(Iterations) :
        LET it == Iterations[i]
            L == it.before.CurrentLocationID
        IN  (/\ IsMove(it.action) /\ Target(it.action) # L
             /\ Exists(L) /\ Exists(Target(it.action))
             /\ Target(it.action) \in Adjacent(L))
            => /\ ~Failed(it)
               /\ it.after =
                     [it.before EXCEPT
                         !.CurrentLocationID = Target(it.action),
                         !.RecentActions = LogAfter(@, ExecutedEntry(UpdateLocation))]

\* end-to-end scenario 1: gate <-> village, a session at gate moves to village
ValidMoveCommitsWitness ==
    /\ ExecOnSession
    /\ locations = TwoWayGraph
    /\ ret.actions = <<MoveTo("village")>>
    /\ ret.before.CurrentLocationID = "gate"
    /\ ret.before.RecentActions = <<>>
    /\ ret.errors = <<>>
    /\ sessions[ret.sid].CurrentLocationID = "village"
    /\ sessions[ret.sid].RecentActions = <<ExecutedEntry(UpdateLocation)>>

\* C7: a move whose target is the session's current location succeeds and
\* leaves the location unchanged, whether or not the location lists itself
\* as adjacent; no adjacency failure is reported for it.
MoveToCurrentIsNoOp ==
    \A i \in 1..Len(Iterations) :
        LET it == Iterations[i]
        IN  (IsMove(it.action) /\ Target(it.action) = it.before.CurrentLocationID)
            => /\ ~Failed(it)
               /\ it.after.CurrentLocationID = it.before.CurrentLocationID
               /\ it.lookups = 0
               /\ Len(Iterations) = 1 => ret.errors = <<>>

\* a session at village, which does not list itself, is moved to village
MoveToCurrentIsNoOpWitness ==
    /\ ExecOnSession
    /\ locations = ChainGraph
    /\ ret.before.CurrentLocationID = "village"
    /\ ret.actions = <<MoveTo("village")>>
    /\ "village" \notin Adjacent("village")
    /\ ret.errors = <<>>
    /\ sessions[ret.sid].CurrentLocationID = "village"

\* C8: a move to a target that is not a location of the graph (and is not
\* the current location) fails with the location-does-not-exist error and
\* leaves the location unchanged; that error is not the not-adjacent error,
\* which is what a move between two existing, non-adjacent locations gets.
UnknownTargetRejected ==
    /\ ErrLocationDoesNotExist # ErrNotAdjacent
    /\ \A i \in 1..Len(Iterations) :
          LET it == Iterations[i]
              L == it.before.CurrentLocationID
              T == Target(it.action)
          IN  /\ (IsMove(it.action) /\ T # L /\ ~Exists(T))
                 => /\ it.err = ErrLocationDoesNotExist
                    /\ it.after = it.before
                    /\ WrappedErr(it.action, ErrLocationDoesNotExist) \in Range(ret.errors)
              /\ (/\ IsMove(it.action) /\ T # L
                  /\ Exists(T) /\ Exists(L) /\ T \notin Adjacent(L))
                 => it.err = ErrNotAdjacent

\* end-to-end scenario 2: gate <-> village, a session at gate is sent nowhere
UnknownTargetRejectedWitness ==
    /\ ExecOnSession
    /\ locations = TwoWayGraph
    /\ ret.before.CurrentLocationID = "gate"
    /\ ret.actions = <<MoveTo(NoSuchID)>>
    /\ ret.errors = <<WrappedErr(MoveTo(NoSuchID), ErrLocationDoesNotExist)>>
    /\ sessions[ret.sid] = ret.before

\* C9: every action whose type is not updateLocation (addItem, removeItem,
\* applyEffect or anything else) puts an error in the result and leaves the
\* session's location unchanged.
UnsupportedKindsFail ==
    ExecOnSession =>
        /\ \A i \in 1..Len(Iterations) :
              LET it == Iterations[i]
              IN  it.action.Type # UpdateLocation
                  => /\ Failed(it)
                     /\ it.err \in {ErrRequiresInventory, ErrRequiresEffects, ErrUnknownType}
                     /\ WrappedErr(it.action, it.err) \in Range(ret.errors)
                     /\ it.after.CurrentLocationID = it.before.CurrentLocationID
        /\ Len(ret.errors) >=
              Cardinality({i \in 1..Len(ret.actions) : ret.actions[i].Type # UpdateLocation})

\* a batch of an unimplemented kind, an unknown kind and a valid move
UnsupportedKindsFailWitness ==
    /\ ExecOnSession
    /\ locations = TwoWayGraph
    /\ ret.before.CurrentLocationID = "gate"
    /\ ret.actions = <<LLMAction(AddItem, Absent), LLMAction("dance", Absent), MoveTo("village")>>
    /\ ret.errors = <<WrappedErr(LLMAction(AddItem, Absent), ErrRequiresInventory),
                      WrappedErr(LLMAction("dance", Absent), ErrUnknownType)>>

\* C10: an updateLocation action without locationId, with a locationId that
\* is not a string or with an empty one fails with the matching invalid-data
\* error before the graph is consulted and leaves the session unchanged.
InvalidDataRejected ==
    \A i \in 1..Len(Iterations) :
        LET it == Iterations[i]
            d == it.action.Data.locationId
        IN  (it.action.Type = UpdateLocation /\ ~IsMove(it.action))
            => /\ it.err = (CASE d.kind = "absent" -> ErrMissingLocationId
                              [] d.kind = "number" -> ErrLocationIdNotString
                              [] OTHER -> ErrLocationIdEmpty)
               /\ it.lookups = 0
               /\ it.after = it.before
               /\ WrappedErr(it.action, it.err) \in Range(ret.errors)

\* the three malformed payloads in one batch
InvalidDataRejectedWitness ==
    /\ ExecOnSession
    /\ ret.actions = <<LLMAction(UpdateLocation, Absent),
                       LLMAction(UpdateLocation, NumberValue), MoveTo("")>>
    /\ Len(ret.errors) = 3
    /\ ret.errors[1].err = ErrMissingLocationId
    /\ ret.errors[2].err = ErrLocationIdNotString
    /\ ret.errors[3].err = ErrLocationIdEmpty
    /\ sessions[ret.sid] = ret.before

\* C11: audit trail.  ExecuteActions appends one "System executed" entry to
\* the recent-action log for every action that succeeds and nothing for an
\* action that fails: a failed action leaves the whole session as it was, a
\* successful one leaves the log it found with its own entry appended (the
\* oldest entry giving way when the log is full), and each action starts
\* from the session its predecessor left.
AuditTrail ==
    ExecOnSession =>
        /\ Len(Iterations) = Len(ret.actions)
        /\ \A i \in 1..Len(Iterations) :
              LET it == Iterations[i]
              IN  /\ it.action = ret.actions[i]
                  /\ it.before = (IF i = 1 THEN ret.before ELSE Iterations[i - 1].after)
                  /\ IF Failed(it)
                     THEN it.after = it.before
                     ELSE it.after.RecentActions =
                              LogAfter(it.before.RecentActions,
                                       <<"System executed:", it.action.Type>>)
        /\ sessions[ret.sid] =
              (IF Iterations = <<>> THEN ret.before ELSE Iterations[Len(Iterations)].after)

\* a failed addItem between two successful moves leaves exactly two entries
AuditTrailWitness ==
    /\ ExecOnSession
    /\ locations = TwoWayGraph
    /\ ret.before.CurrentLocationID = "gate"
    /\ ret.before.RecentActions = <<>>
    /\ ret.actions = <<MoveTo("village"), LLMAction(AddItem, Absent), MoveTo("gate")>>
    /\ Len(ret.errors) = 1
    /\ sessions[ret.sid].RecentActions =
          <<<<"System executed:", UpdateLocation>>, <<"System executed:", UpdateLocation>>>>

(***************************************************************************)
(* Claims about one turn, read off ret after ProcessPlayerInput returned.  *)
(***************************************************************************)
TurnReturned == ret.op = "ProcessPlayerInput"
TurnOnSession == TurnReturned /\ ret.before # NilSession
GenerationSucceeded == TurnReturned /\ ret.generatorCalled /\ ret.generated.err = NoError
GenerationFailed == TurnReturned /\ ret.generatorCalled /\ ret.generated.err # NoError

\* the number of actions of the turn that failed
FailedCount == Cardinality({i \in 1..Len(ret.iterations) : Failed(ret.iterations[i])})

\* C12: a turn whose generation succeeds returns a result and no error
\* whatever its actions did.  Every generated action was attempted; with k
\* of them failed, the returned narrative is the generator's narrative with
\* one annotation carrying k in front when k >= 1 and the generator's
\* narrative itself when k = 0; the returned actions and suggestions are the
\* generator's, failed ones included.
TurnResult ==
    GenerationSucceeded =>
        LET gen == ret.generated.response
            k == FailedCount
        IN  /\ ret.err = NoError
            /\ ret.response # NoResponse
            /\ Len(ret.iterations) = Len(gen.Actions)
            /\ ret.response.Narrative =
                  (IF k >= 1
                   THEN <<[kind |-> "annotation",
                           text |-> "System Error processing actions",
                           count |-> k]>> \o gen.Narrative
                   ELSE gen.Narrative)
            /\ ret.response.Actions = gen.Actions
            /\ ret.response.Suggestions = gen.Suggestions

\* a move that succeeds and an addItem that fails: annotation with count 1,
\* both actions reported
TurnResultWitness ==
    /\ GenerationSucceeded
    /\ locations = TwoWayGraph
    /\ ret.before.CurrentLocationID = "gate"
    /\ ret.generated.response.Actions = <<MoveTo("village"), LLMAction(AddItem, Absent)>>
    /\ sessions[ret.sid].CurrentLocationID = "village"
    /\ ret.response.Narrative[1].count = 1
    /\ Len(ret.response.Narrative) = 2
    /\ ret.response.Actions = ret.generated.response.Actions

\* C13: when the generator call fails (transport error, upstream block,
\* malformed output, cancellation) the turn returns the generator error and
\* no result, the executor is not invoked, the session's location is the one
\* before the turn, and its log is the log before the turn with the player's
\* input appended once.
GeneratorFailureAborts ==
    GenerationFailed =>
        /\ ret.err = ErrLLMAdapter
        /\ ret.response = NoResponse
        /\ ~ret.executorCalled
        /\ ret.iterations = <<>>
        /\ sessions[ret.sid].CurrentLocationID = ret.before.CurrentLocationID
        /\ sessions[ret.sid].RecentActions =
              LogAfter(ret.before.RecentActions, <<"Player:", ret.input>>)

\* a transport error on a session with an empty log
GeneratorFailureAbortsWitness ==
    /\ GenerationFailed
    /\ ret.generated.err = "transport error"
    /\ ret.before.RecentActions = <<>>
    /\ ret.before.CurrentLocationID = "village"
    /\ sessions[ret.sid].RecentActions = <<<<"Player:", "look">>>>
    /\ ret.err = ErrLLMAdapter

\* a turn that found its session and was aborted before action execution
TurnAborted == TurnOnSession /\ ret.err \in {ErrBuildContext, ErrLLMAdapter}

\* C14 as stated: the steps before action execution only read the session,
\* so a turn aborted by a context error or a generator failure leaves every
\* field of the session as it was before the turn.
AbortedTurnOnlyReads ==
    TurnAborted => sessions[ret.sid] = ret.before

\* C14 as the code has it: the fetch refreshes LastActive and the player's
\* input is appended to the log before the context is built, so an aborted
\* turn leaves the session as it was except for LastActive, which is the
\* time of the fetch, and the log, which has gained the player's input; no
\* action has run.
AbortedTurnTouchesLogAndLastActive ==
    TurnAborted =>
        /\ sessions[ret.sid] =
              [ret.before EXCEPT
                  !.LastActive = ret.at,
                  !.RecentActions = LogAfter(@, <<"Player:", ret.input>>)]
        /\ ~ret.executorCalled
        /\ ret.iterations = <<>>

\* a context error at a later clock reading: LastActive and the log have
\* both changed, nothing else has
AbortedTurnWitness ==
    /\ TurnAborted
    /\ ret.err = ErrBuildContext
    /\ ret.before.LastActive = 0
    /\ ret.before.RecentActions = <<>>
    /\ sessions[ret.sid].LastActive = 1
    /\ sessions[ret.sid].RecentActions = <<<<"Player:", "look">>>>
    /\ sessions[ret.sid].CurrentLocationID = ret.before.CurrentLocationID

\* C15: a turn for a session id the store does not hold fails as a whole
\* with the session-retrieval error: it returns no result, neither the
\* generator nor the executor is invoked, and the step leaves every session
\* of the store as it was.
UnknownSessionFailsTurn ==
    [][(steps' # steps /\ ret'.op = "ProcessPlayerInput" /\ ret'.sid \notin DOMAIN sessions)
         => /\ ret'.err = ErrRetrieveSession
            /\ ret'.response = NoResponse
            /\ ~ret'.generatorCalled
            /\ ~ret'.executorCalled
            /\ ret'.iterations = <<>>
            /\ sessions' = sessions]_vars

\* a turn for the unknown id at a later clock reading: the one stored
\* session keeps its LastActive and its empty log
UnknownSessionFailsTurnWitness ==
    /\ TurnReturned
    /\ ret.sid = UnknownSessionID
    /\ ret.sid \notin DOMAIN sessions
    /\ ret.err = ErrRetrieveSession
    /\ now = 1
    /\ \E id \in DOMAIN sessions :
          sessions[id].LastActive = 0 /\ sessions[id].RecentActions = <<>>

\* the session as the executed actions of the turn left it
SessionAfterActions ==
    IF ret.iterations = <<>>
    THEN [ret.before EXCEPT !.LastActive = ret.at,
                            !.RecentActions = LogAfter(@, <<"Player:", ret.input>>)]
    ELSE ret.iterations[Len(ret.iterations)].after

\* C16: when the manager's UpdateSession fails at the end of a turn whose
\* generation succeeded, the turn still returns no error and the result,
\* annotated when actions failed, and the session keeps what the executed
\* actions did to it.
UpdateFailureDoesNotFailTurn ==
    (GenerationSucceeded /\ ret.updateFailed) =>
        /\ ret.err = NoError
        /\ ret.response # NoResponse
        /\ ret.response.Actions = ret.generated.response.Actions
        /\ Len(ret.response.Narrative) =
              Len(ret.generated.response.Narrative) + (IF FailedCount >= 1 THEN 1 ELSE 0)
        /\ sessions[ret.sid] = SessionAfterActions

\* the update fails after a move to the village went through
UpdateFailureWitness ==
    /\ GenerationSucceeded
    /\ ret.updateFailed
    /\ ret.updateErr = ErrNotManaged
    /\ locations = ChainGraph
    /\ ret.before.CurrentLocationID = "gate"
    /\ ret.generated.response.Actions = <<MoveTo("village")>>
    /\ sessions[ret.sid].CurrentLocationID = "village"
    /\ ret.err = NoError

\* C17: when the session's current location is not in the world graph as
\* the turn builds its context, the turn fails with the context error and
\* returns no result; the generator is not called and no action is executed,
\* so the session stays where it was.
DanglingLocationFailsTurn ==
    (TurnOnSession /\ ret.before.CurrentLocationID \notin DOMAIN locations) =>
        /\ ret.err = ErrBuildContext
        /\ ret.response = NoResponse
        /\ ret.prompt = NoPrompt
        /\ ~ret.generatorCalled
        /\ ~ret.executorCalled
        /\ ret.iterations = <<>>
        /\ sessions[ret.sid].CurrentLocationID = ret.before.CurrentLocationID

\* a session standing at the keep, which the two-way graph does not have,
\* with a generator that would have proposed a move
DanglingLocationWitness ==
    /\ TurnOnSession
    /\ locations = TwoWayGraph
    /\ ret.before.CurrentLocationID = "keep"
    /\ ret.generated.err = NoError
    /\ ret.generated.response.Actions = <<MoveTo("gate")>>
    /\ ret.err = ErrBuildContext
    /\ sessions[ret.sid].CurrentLocationID = "keep"

(***************************************************************************)
(* Claims about the recent-action log, read off SpecLog.                   *)
(***************************************************************************)
\* the last n entries of seq, all of it when it is shorter
LastEntries(seq, n) ==
    IF Len(seq) <= n THEN seq ELSE SubSeq(seq, Len(seq) - n + 1, Len(seq))

\* C18: bounded history.  After any sequence of appends, by the recording
\* of player input and by the executor, the log has at most
\* maxRecentActions (5) entries, and after n appends it holds the last
\* min(n, 5) appended entries in the order they were appended.
BoundedHistory ==
    ret.op = "AddRecentAction" =>
        \A sid \in DOMAIN sessions :
            LET log == sessions[sid].RecentActions
                n == Len(ret.appended)
            IN  /\ Len(log) <= maxRecentActions
                /\ Len(log) = (IF n < maxRecentActions THEN n ELSE maxRecentActions)
                /\ log = LastEntries(ret.appended, maxRecentActions)

\* seven appends: the first two entries have been evicted, the other five
\* are kept oldest first
BoundedHistoryWitness ==
    /\ ret.op = "AddRecentAction"
    /\ ret.appended = <<<<"Player:", "look">>, <<"System executed:", UpdateLocation>>,
                        <<"Player:", "go north">>, <<"System executed:", UpdateLocation>>,
                        <<"Player:", "look">>, <<"Player:", "look">>,
                        <<"Player:", "go north">>>>
    /\ \E sid \in DOMAIN sessions :
          sessions[sid].RecentActions =
              <<<<"Player:", "go north">>, <<"System executed:", UpdateLocation>>,
                <<"Player:", "look">>, <<"Player:", "look">>, <<"Player:", "go north">>>>

(***************************************************************************)
(* Claims about the session store, read off SpecStore.                     *)
(***************************************************************************)
CreateReturned == ret.op = "CreateNewSession"

\* C19: session ids are unique.  Every create step that succeeds adds one
\* entry under an id the store did not hold and leaves every session it
\* held as it was; every create step that fails, an id collision included,
\* leaves the store as it was.  (The whole body of create runs under the
\* store's write lock, so concurrent creates take effect one after another.)
UniqueSessionIDs ==
    [][(steps' # steps /\ ret'.op = "CreateNewSession")
         => IF ret'.err = NoError
            THEN /\ ret'.sid \notin DOMAIN sessions
                 /\ DOMAIN sessions' = DOMAIN sessions \cup {ret'.sid}
                 /\ sessions'[ret'.sid].ID = ret'.sid
                 /\ \A id \in DOMAIN sessions : sessions'[id] = sessions[id]
            ELSE sessions' = sessions]_vars

\* a second create for the same character at the same clock reading: the
\* id collides, the call fails and the first session keeps its location
UniqueSessionIDsWitness ==
    /\ CreateReturned
    /\ ret.err = ErrIDCollision
    /\ ret.start = NoSuchID
    /\ SessionID("p1", 0) \in DOMAIN sessions
    /\ sessions[SessionID("p1", 0)].CurrentLocationID = "gate"
    /\ Cardinality(DOMAIN sessions) = 1

\* C20 as stated: create fails and leaves the store unchanged when the
\* character is absent or has an empty identifier; in every other case it
\* stores a new session with the given character and start location, an
\* empty log, and CreatedAt and LastActive both equal to the time of the
\* call.
CreateAsStated ==
    [][(steps' # steps /\ ret'.op = "CreateNewSession")
         => IF ret'.player = NilCharacter \/ ret'.player.ID = ""
            THEN ret'.err # NoError /\ sessions' = sessions
            ELSE /\ ret'.err = NoError
                 /\ ret'.sid \in DOMAIN sessions'
                 /\ sessions'[ret'.sid].Player = ret'.player
                 /\ sessions'[ret'.sid].CurrentLocationID = ret'.start
                 /\ sessions'[ret'.sid].RecentActions = <<>>
                 /\ sessions'[ret'.sid].CreatedAt = ret'.at
                 /\ sessions'[ret'.sid].LastActive = ret'.at]_vars

\* C20 as the code has it: create fails and leaves the store unchanged when
\* the character is absent, has an empty identifier, or the generated id is
\* already in the store; otherwise the new session has the given character
\* and start location and an empty log, and CreatedAt and LastActive are two
\* clock readings taken in this order during the call, so that
\* call time <= CreatedAt <= LastActive <= return time.
CreateEffect ==
    [][(steps' # steps /\ ret'.op = "CreateNewSession")
         => IF ret'.player = NilCharacter
            THEN ret'.err = ErrNilPlayer /\ sessions' = sessions
            ELSE IF ret'.player.ID = ""
            THEN ret'.err = ErrPlayerNoID /\ sessions' = sessions
            ELSE IF <<"session", ret'.player.ID, ret'.at>> \in DOMAIN sessions
            THEN ret'.err = ErrIDCollision /\ sessions' = sessions
            ELSE /\ ret'.err = NoError
                 /\ ret'.sid = <<"session", ret'.player.ID, ret'.at>>
                 /\ ret'.sid \in DOMAIN sessions'
                 /\ sessions'[ret'.sid].ID = ret'.sid
                 /\ sessions'[ret'.sid].Player = ret'.player
                 /\ sessions'[ret'.sid].CurrentLocationID = ret'.start
                 /\ sessions'[ret'.sid].RecentActions = <<>>
                 /\ ret'.at <= sessions'[ret'.sid].CreatedAt
                 /\ sessions'[ret'.sid].CreatedAt <= sessions'[ret'.sid].LastActive
                 /\ sessions'[ret'.sid].LastActive <= now']_vars

\* a create during which the clock moved on between the two readings
CreateEffectWitness ==
    /\ CreateReturned
    /\ ret.err = NoError
    /\ ret.at = 0
    /\ ret.start = "gate"
    /\ sessions[ret.sid].Player = NewCharacter("p1", "Ash", "Courier", "Wasteland-Born")
    /\ sessions[ret.sid].CurrentLocationID = "gate"
    /\ sessions[ret.sid].RecentActions = <<>>
    /\ sessions[ret.sid].CreatedAt = 0
    /\ sessions[ret.sid].LastActive = 1

\* C21: get(id) fails with the not-found error, returns no session and
\* changes nothing when the store does not hold id; when it does, get
\* returns the session stored under id and the only change of the step is
\* that this session's LastActive is the current time: its other fields and
\* every other session are as before.
GetEffect ==
    [][(steps' # steps /\ ret'.op = "GetSession")
         => IF ret'.sid \notin DOMAIN sessions
            THEN /\ ret'.err = ErrSessionNotFound
                 /\ ret'.session = NilSession
                 /\ sessions' = sessions
            ELSE /\ ret'.err = NoError
                 /\ sessions' = [sessions EXCEPT ![ret'.sid].LastActive = now]
                 /\ ret'.session = sessions'[ret'.sid]
                 /\ now' = now]_vars

\* two sessions in the store; the older one is fetched after the clock has
\* moved on, the other keeps its LastActive
GetEffectWitness ==
    /\ ret.op = "GetSession"
    /\ ret.err = NoError
    /\ ret.sid = <<"session", "p1", 0>>
    /\ sessions[ret.sid].CreatedAt = 0
    /\ sessions[ret.sid].LastActive = 1
    /\ ret.session = sessions[ret.sid]
    /\ \E other \in DOMAIN sessions :
          other # ret.sid /\ sessions[other].CurrentLocationID = NoSuchID

UpdateReturned == ret.op = "UpdateSession"

\* C22 as stated: update fails and leaves the store, every session and the
\* object passed unchanged when the session is nil or its id is not tracked;
\* on success the LastActive of the session tracked under that id is the
\* current time and the set of tracked ids is unchanged.
UpdateAsStated ==
    [][(steps' # steps /\ ret'.op = "UpdateSession")
         => IF ret'.passed = NilSession \/ ret'.passed.ID \notin DOMAIN sessions
            THEN /\ ret'.err # NoError
                 /\ sessions' = sessions
                 /\ ret'.session = ret'.passed
            ELSE /\ ret'.err = NoError
                 /\ DOMAIN sessions' = DOMAIN sessions
                 /\ sessions'[ret'.passed.ID].LastActive = now]_vars

\* C22 as the code has it: the failures are as stated; on success
\* LastActive is set to the current time on the object passed, no other
\* field of it changes, and the set of tracked ids is unchanged.  The
\* tracked session is refreshed only when it is the object passed; a
\* distinct object carrying a tracked id leaves the store as it was.
UpdateEffect ==
    [][(steps' # steps /\ ret'.op = "UpdateSession")
         => IF ret'.passed = NilSession
            THEN ret'.err = ErrUpdateNil /\ sessions' = sessions
            ELSE IF ret'.passed.ID \notin DOMAIN sessions
            THEN /\ ret'.err = ErrNotManaged
                 /\ sessions' = sessions
                 /\ ret'.session = ret'.passed
            ELSE /\ ret'.err = NoError
                 /\ ret'.session = [ret'.passed EXCEPT !.LastActive = now]
                 /\ DOMAIN sessions' = DOMAIN sessions
                 /\ sessions' = (IF ret'.aliased
                                 THEN [sessions EXCEPT ![ret'.passed.ID].LastActive = now]
                                 ELSE sessions)]_vars

\* a copy of a tracked session is passed after the clock has moved on: the
\* call succeeds, the copy is stamped, the tracked session is not
UpdateEffectWitness ==
    /\ UpdateReturned
    /\ ret.err = NoError
    /\ ~ret.aliased
    /\ now = 1
    /\ ret.session.LastActive = 1
    /\ sessions[ret.sid].LastActive = 0
    /\ sessions[ret.sid].CurrentLocationID = "gate"
    /\ ret.session.CurrentLocationID = "keep"

(***************************************************************************)
(* Claims about the world graph, read off SpecWorld.                       *)
(***************************************************************************)
LoadReturned == ret.op = "LoadWorldData"
LoadStep == steps' # steps /\ ret'.op = "LoadWorldData"

\* C23: load is all-or-nothing.  After a load that returned an error the
\* graph the queries see is either the graph from before the load or empty,
\* never some of the records of the failed load.
LoadAllOrNothing ==
    [][(LoadStep /\ ret'.err # NoError)
         => \/ locations' = locations /\ themes' = themes
            \/ locations' = <<>> /\ themes' = <<>>]_vars

\* the .json files of a directory, which are the records a load is given
Records(files) == SelectSeq(files, IsJSON)

\* the records of a directory that repeat the id of an earlier record
Repeats(files) ==
    {j \in 1..Len(Records(files)) :
        \E i \in 1..(j - 1) : FileID(Records(files)[i]) = FileID(Records(files)[j])}

\* the location records that name a theme no theme record has the id of
NamesMissingTheme(locationFiles, themeFiles) ==
    {j \in 1..Len(Records(locationFiles)) :
        /\ Records(locationFiles)[j].ThemeID # ""
        /\ \A i \in 1..Len(Records(themeFiles)) :
              FileID(Records(themeFiles)[i]) # Records(locationFiles)[j].ThemeID}

\* the location records that list an adjacent id no loaded location has
ListsMissingLocation(locationFiles, loaded) ==
    {j \in 1..Len(Records(locationFiles)) :
        \E k \in 1..Len(Records(locationFiles)[j].AdjacentIDs) :
            Records(locationFiles)[j].AdjacentIDs[k] \notin loaded}

\* C24: load returns an error whenever its input has a location naming a
\* theme that is not loaded, a location listing an adjacent id that is not
\* loaded, two locations with one id or two themes with one id.  The whole
\* input is examined, whatever faults come first: every theme record is
\* stored or, when it repeats an id, reported; every location record that
\* repeats no id is stored or, when its theme is missing, reported; and
\* every dangling adjacency of a stored location is reported.
LoadReportsEveryFault ==
    LoadReturned =>
        LET L == Records(ret.locationFiles)
            T == Records(ret.themeFiles)
        IN  /\ (\/ Repeats(ret.themeFiles) # {}
                \/ Repeats(ret.locationFiles) # {}
                \/ NamesMissingTheme(ret.locationFiles, ret.themeFiles) # {}
                \/ ListsMissingLocation(ret.locationFiles, DOMAIN locations) # {})
               => ret.err = ErrWorldLoad
            /\ \A j \in 1..Len(T) :
                  IF j \in Repeats(ret.themeFiles)
                  THEN \E e \in ret.loadErrors :
                          e.kind = "duplicate theme ID" /\ e.ref = T[j].file
                  ELSE /\ FileID(T[j]) \in DOMAIN themes
                       /\ themes[FileID(T[j])] = [ID |-> FileID(T[j]), Name |-> T[j].Name]
            /\ \A j \in (1..Len(L)) \ Repeats(ret.locationFiles) :
                  IF j \in NamesMissingTheme(ret.locationFiles, ret.themeFiles)
                  THEN \E e \in ret.loadErrors :
                          e.kind = "non-existent theme ID" /\ e.ref = L[j].file
                  ELSE /\ FileID(L[j]) \in DOMAIN locations
                       /\ locations[FileID(L[j])] =
                             [ID |-> FileID(L[j]), AdjacentIDs |-> L[j].AdjacentIDs,
                              ThemeID |-> L[j].ThemeID]
            /\ \A id \in DOMAIN locations :
                  \A k \in 1..Len(locations[id].AdjacentIDs) :
                      locations[id].AdjacentIDs[k] \notin DOMAIN locations
                      => \E e \in ret.loadErrors :
                            /\ e.kind = "non-existent adjacent location ID"
                            /\ e.id = id
                            /\ e.ref = <<locations[id].AdjacentIDs[k]>>

\* one load with a repeated theme, a repeated location, a missing theme and
\* a dangling adjacency: four entries, one per fault
LoadReportsEveryFaultWitness ==
    /\ LoadReturned
    /\ ret.err = ErrWorldLoad
    /\ Repeats(ret.themeFiles) # {}
    /\ Repeats(ret.locationFiles) # {}
    /\ NamesMissingTheme(ret.locationFiles, ret.themeFiles) # {}
    /\ Cardinality(ret.loadErrors) = 4
    /\ {e.kind : e \in ret.loadErrors} =
          {"duplicate theme ID", "duplicate location ID", "non-existent theme ID",
           "non-existent adjacent location ID"}

RecordIDs(files) == {FileID(Records(files)[j]) : j \in 1..Len(Records(files))}

\* the input of the last load has no repeated id and no dangling reference
CleanInput ==
    /\ Repeats(ret.themeFiles) = {}
    /\ Repeats(ret.locationFiles) = {}
    /\ NamesMissingTheme(ret.locationFiles, ret.themeFiles) = {}
    /\ ListsMissingLocation(ret.locationFiles, RecordIDs(ret.locationFiles)) = {}

IsAdjacentAnswer ==
    [][(ret'.op = "IsAdjacent" /\ ret' # ret)
         => /\ locations' = locations
            /\ themes' = themes
            /\ IF ret'.from \notin DOMAIN locations \/ ret'.to \notin DOMAIN locations
               THEN /\ ret'.result.err \in {<<"current location with ID", "not found">>,
                                            <<"target location with ID", "not found">>}
                    /\ ~ret'.result.isAdj
               ELSE /\ ret'.result.err = <<>>
                    /\ ret'.result.isAdj
                          <=> ret'.to \in Range(locations[ret'.from].AdjacentIDs)]_vars

\* keep lists gate and gate does not list keep: the answer for (keep, gate)
\* is true although the one for (gate, keep) would be false
IsAdjacentAnswerWitness ==
    /\ ret.op = "IsAdjacent"
    /\ ret.from = "keep"
    /\ ret.to = "gate"
    /\ ret.result.isAdj
    /\ ret.result.err = <<>>
    /\ "gate" \in DOMAIN locations
    /\ "keep" \notin Range(locations["gate"].AdjacentIDs)
    /\ ~IsAdjacent(locations, "gate", "keep").isAdj

\* C27: GetAdjacentLocations(id) fails with not-found when id is not in the
\* graph; otherwise it returns the locations of id's adjacency list that
\* are in the graph, in the order of the list, and passes over the ids that
\* are not without failing.
AdjacentLocationsAnswer ==
    ret.op = "GetAdjacentLocations" =>
        IF ret.id \notin DOMAIN locations
        THEN ~ret.result.found /\ ret.result.nodes = <<>>
        ELSE LET resolved == SelectSeq(locations[ret.id].AdjacentIDs,
                                       LAMBDA adjID : adjID \in DOMAIN locations)
             IN  /\ ret.result.found
                 /\ Len(ret.result.nodes) = Len(resolved)
                 /\ \A i \in 1..Len(resolved) :
                       ret.result.nodes[i] = locations[resolved[i]]

\* village lists gate and keep, and only keep is in the graph
AdjacentLocationsAnswerWitness ==
    /\ ret.op = "GetAdjacentLocations"
    /\ ret.id = "village"
    /\ DOMAIN locations = {"keep", "village"}
    /\ locations["village"].AdjacentIDs = <<"gate", "keep">>
    /\ ret.result.found
    /\ Len(ret.result.nodes) = 1
    /\ ret.result.nodes[1].ID = "keep"

(***************************************************************************)
(* Claims about a load racing with read queries, read off SpecWorldRace.   *)
(***************************************************************************)
\* the load has cleared the maps and has not returned yet
LoadInProgress == pc["loader"].at \in {"themes", "locations", "validate"}

\* the graphs a finished load leaves, and the empty graph of the start
GraphVersions ==
    {[locations |-> <<>>, themes |-> <<>>]}
    \cup {[locations |-> LoadWorldDataResult(input.locationFiles, input.themeFiles).locations,
           themes |-> LoadWorldDataResult(input.locationFiles, input.themeFiles).themes] :
             input \in RaceInputs}

\* C28: a load excludes readers.  Between the clearing of the maps and the
\* return of the load no GetLocation, GetTheme, IsAdjacent,
\* GetAllLocationIDs, GetAllThemeIDs or ValidateThemeExists is inside its
\* read lock; every read has executed while the load was not yet past its
\* Lock() or not running, and what it returned is the answer on the graph
\* as some load left it (or on the empty graph of the start), never on a
\* cleared or half-filled one.
LoadExcludesReaders ==
    /\ LoadInProgress =>
          /\ mu.ws.readers = {}
          /\ \A reader \in Readers : pc[reader].at # "read"
    /\ ret.op = "Read" =>
          /\ ret.load \in {"idle", "lock"}
          /\ \E v \in GraphVersions :
                ret.result = Answer(ret.query, v.locations, v.themes)

\* the second load is waiting in Lock() while a reader that entered before
\* it still finds the gate of the first load
LoadExcludesReadersWitness ==
    /\ ret.op = "Read"
    /\ ret.load = "lock"
    /\ steps = 2
    /\ pc["loader"].at = "lock"
    /\ ret.query.op = "GetLocation"
    /\ ret.result.found
    /\ mu.ws.writer = "loader"

\* C29: under every interleaving of two turns on distinct sessions, a turn
\* that has returned leaves its session, location and recent-action log
\* included, and returns the error and the result that the same turn gives
\* when run alone on that session; a session whose turn has not started is
\* as it was; and a step of one turn changes no field of the other session.
AloneTurn(p) ==
    Turn(locations, [id \in {pc[p].sid} |-> pc[p].before], pc[p].sid,
         pc[p].input, pc[p].generated, NoError, now)

TurnsAsAlone ==
    \A p \in Turners :
        /\ pc[p].at = "start" => sessions[pc[p].sid] = pc[p].before
        /\ pc[p].at = "done" =>
              /\ sessions[pc[p].sid] = AloneTurn(p).store[pc[p].sid]
              /\ sessions[pc[p].sid].CurrentLocationID =
                    AloneTurn(p).store[pc[p].sid].CurrentLocationID
              /\ sessions[pc[p].sid].RecentActions =
                    AloneTurn(p).store[pc[p].sid].RecentActions
              /\ pc[p].err = AloneTurn(p).err
              /\ pc[p].response = AloneTurn(p).response

OtherSessionUntouched ==
    \A p \in Turners :
        pc'[p] = pc[p] => sessions'[SessionOf(p)] = sessions[SessionOf(p)]

TurnsDoNotInterfere == []TurnsAsAlone /\ [][OtherSessionUntouched]_vars

\* both turns have returned, each after its own generated actions, and both
\* sessions have moved
TurnsDoNotInterfereWitness ==
    /\ \A p \in Turners : pc[p].at = "done" /\ pc[p].err = NoError
    /\ pc["turn1"].generated # pc["turn2"].generated
    /\ \A p \in Turners :
          sessions[pc[p].sid].CurrentLocationID # pc[p].before.CurrentLocationID

\* what a generator may put around the same actions
Narratives == {<<>>, <<Text("story")>>, <<Text("you are in the keep now")>>,
               <<Text("story"), Text("the gate opens")>>}
SuggestionLists == {<<>>, <<"look around">>, <<"go to the keep", "rest">>}

\* the generator results that carry the actions of the turn made
Twins ==
    {[err |-> NoError, response |-> LLMResponse(n, s, ret.generated.response.Actions)] :
        n \in Narratives, s \in SuggestionLists}

\* the session after the turn made again from the same session, graph and
\* input with the generator result twin
TwinSession(twin) ==
    Turn(locations, [id \in {ret.sid} |-> ret.before], ret.sid, ret.input, twin,
         ret.updateErr, ret.at).store[ret.sid]

\* C30: only validated actions of the generator's result reach the state.
\* A turn made from the same session, graph and player input with the same
\* actions and any other narrative and suggestions leaves the same session,
\* location and log included; and when the location after a turn differs
\* from the one before, one of its actions is an updateLocation that did not
\* fail, whose target exists and is in the stored adjacency list of the
\* location the session then had.
OnlyValidatedActionsAffectState ==
    /\ GenerationSucceeded =>
          \A twin \in Twins :
              /\ TwinSession(twin).CurrentLocationID = sessions[ret.sid].CurrentLocationID
              /\ TwinSession(twin).RecentActions = sessions[ret.sid].RecentActions
              /\ TwinSession(twin) = sessions[ret.sid]
    /\ (TurnOnSession /\ sessions[ret.sid].CurrentLocationID # ret.before.CurrentLocationID)
          => \E i \in 1..Len(ret.iterations) :
                LET it == ret.iterations[i]
                    L == it.before.CurrentLocationID
                IN  /\ IsMove(it.action)
                    /\ ~Failed(it)
                    /\ Exists(L)
                    /\ Exists(Target(it.action))
                    /\ Target(it.action) \in Adjacent(L)
                    /\ it.after.CurrentLocationID = Target(it.action)

\* a turn whose first action moves the session and whose second is refused:
\* the narrative returned is annotated, the twins carry other narratives
OnlyValidatedActionsWitness ==
    /\ GenerationSucceeded
    /\ Len(ret.iterations) = 2
    /\ ~Failed(ret.iterations[1])
    /\ Failed(ret.iterations[2])
    /\ sessions[ret.sid].CurrentLocationID # ret.before.CurrentLocationID
    /\ \E twin \in Twins : twin.response.Narrative # ret.generated.response.Narrative
    /\ ret.response.Narrative # ret.generated.response.Narrative

CreateHandled == ret.op = "handleCreateSession"

\* the sessions of the store all stand at a location of the graph
StartsExist ==
    \A id \in DOMAIN sessions : sessions[id].CurrentLocationID \in DOMAIN locations

\* a call of the handler: it adds a session exactly when it answers 201,
\* which it does only to a POST whose player name is non-empty and whose
\* start location is in the graph; a request failing either check is
\* answered 400 and leaves the store as it was
CreateChecked ==
    ret'.op = "handleCreateSession" /\ ret' # ret =>
        /\ (sessions' # sessions) = (ret'.status = StatusCreated)
        /\ ret'.status = StatusCreated =>
              /\ ret'.method = "POST"
              /\ ret'.req.PlayerName # ""
              /\ ret'.req.StartLocationID \in DOMAIN locations
              /\ DOMAIN sessions' = DOMAIN sessions \cup {ret'.sid}
              /\ ret'.sid \notin DOMAIN sessions
              /\ \A id \in DOMAIN sessions : sessions'[id] = sessions[id]
              /\ sessions'[ret'.sid].CurrentLocationID = ret'.req.StartLocationID
              /\ sessions'[ret'.sid].Player.Name = ret'.req.PlayerName
        /\ (/\ ret'.method = "POST"
            /\ ret'.req # Malformed
            /\ \/ ret'.req.PlayerName = ""
               \/ ret'.req.StartLocationID \notin DOMAIN locations)
           => (ret'.status = StatusBadRequest /\ sessions' = sessions)

\* C31: the session-creation interface creates a session only when the
\* player name is non-empty and the start location resolves in the graph;
\* when either check fails the store is left as it was; so every session
\* created through the handler or as the default session stands at an
\* existing location.
CreateOnlyAtExistingLocation == []StartsExist /\ [][CreateChecked]_vars

\* a session created at gate, then a request with an unknown start location
\* refused with the store still holding that one session
CreateOnlyAtExistingLocationWitness ==
    /\ CreateHandled
    /\ ret.status = StatusBadRequest
    /\ ret.req.PlayerName = "Ash"
    /\ ret.req.StartLocationID = NoSuchID
    /\ Cardinality(DOMAIN sessions) = 1
    /\ \E id \in DOMAIN sessions :
          sessions[id].CurrentLocationID = "gate" /\ sessions[id].Player.Name = "Ash"

Identity(sess) == <<sess.ID, sess.CreatedAt, sess.Player>>

\* every character of the store is at level 1
LevelOne == \A id \in DOMAIN sessions : sessions[id].Player.Level = 1

\* one operation: the sessions held keep their identifier, CreatedAt and
\* whole character; a session added carries the character passed in, at
\* level 1; the object passed to an update and the one a get returns keep
\* them too
FrameKept ==
    /\ \A id \in DOMAIN sessions :
          /\ id \in DOMAIN sessions'
          /\ Identity(sessions'[id]) = Identity(sessions[id])
          /\ sessions'[id].ID = id
    /\ \A id \in DOMAIN sessions' \ DOMAIN sessions :
          /\ sessions'[id].ID = id
          /\ sessions'[id].Player = ret'.player
          /\ sessions'[id].Player.Level = 1
    /\ (ret'.op = "UpdateSession" /\ ret' # ret /\ ret'.passed # NilSession) =>
          Identity(ret'.session) = Identity(ret'.passed)
    /\ (ret'.op = "GetSession" /\ ret' # ret /\ ret'.err = NoError) =>
          Identity(ret'.session) = Identity(sessions[ret'.sid])

\* C32: a session's character is created at level 1 and never modified: no
\* turn, no action of any kind, failed or not, no get and no update changes
\* its identifier, name, class, origin or level, and no operation changes a
\* session's identifier or CreatedAt.
CharacterImmutable == []LevelOne /\ [][FrameKept]_vars

\* an applyEffect action was executed, and refused, on the stored session
CharacterImmutableWitness ==
    /\ ret.op = "ExecuteActions"
    /\ ret.actions[1].Type = ApplyEffect
    /\ Len(ret.errors) = 1
    /\ sessions[ret.sid].Player = ExecPlayer
    /\ sessions[ret.sid].Player.Level = 1

\* C33: GetAdjacentLocations observes a single graph version while a load
\* runs: with at most one load between its two readings, its result is what
\* the query gives evaluated entirely on the graph before that load or
\* entirely on the graph after it.
AdjacentSingleVersion ==
    (ret.op = "GetAdjacentLocations" /\ ret.loads <= 1) =>
        \/ ret.result = GetAdjacentLocations(ret.before, ret.id)
        \/ ret.result = GetAdjacentLocations(ret.after, ret.id)

\* the audit entries of the turn's actions that did not fail, in their order
TurnAudits ==
    LET done == SelectSeq(ret.iterations, LAMBDA it : ~Failed(it))
    IN  [i \in 1..Len(done) |-> ExecutedEntry(done[i].action.Type)]

\* C34: the order of effects within a turn.  The context handed to the
\* generator carries the location the session had before any action of the
\* turn and a recent-action list that is the log before the turn with the
\* current player input appended as its last entry, holding no audit entry
\* of the turn; and when the generator answered, the log after the turn is
\* the log before it followed by the player-input entry and then by the
\* turn's audit entries, cut to its last maxRecentActions entries.
TurnOrder ==
    (TurnReturned /\ ret.generatorCalled) =>
        /\ ret.prompt.CurrentLocation = ret.before.CurrentLocationID
        /\ ret.prompt.RecentActions =
              LogAfter(ret.before.RecentActions, PlayerEntry(ret.input))
        /\ ret.prompt.RecentActions[Len(ret.prompt.RecentActions)] = PlayerEntry(ret.input)
        /\ sessions[ret.sid].RecentActions =
              LastEntries(ret.before.RecentActions \o <<PlayerEntry(ret.input)>>
                              \o (IF ret.generated.err = NoError THEN TurnAudits ELSE <<>>),
                          maxRecentActions)

\* a turn on an empty log whose two moves both succeed: the context holds
\* the player input alone and the old location, the log ends with the two
\* audit entries
TurnOrderWitness ==
    /\ TurnReturned
    /\ ret.generatorCalled
    /\ ret.before.RecentActions = <<>>
    /\ ret.prompt.RecentActions = <<PlayerEntry(ret.input)>>
    /\ Len(TurnAudits) = 2
    /\ sessions[ret.sid].RecentActions =
          <<PlayerEntry(ret.input), ExecutedEntry(UpdateLocation), ExecutedEntry(UpdateLocation)>>
    /\ ret.prompt.CurrentLocation # sessions[ret.sid].CurrentLocationID

\* no turn stands between the two stores of a move
NoStoreUnderWay == \A p \in Turners : pc[p].at # "stored"

\* C35: with a fixed graph and a session whose start location exists, when
\* two turns on the same session interleave, the session's
\* CurrentLocationID names a location of the graph whenever no assignment
\* to it is half done.
SameSessionLocationExists ==
    NoStoreUnderWay =>
        \A id \in DOMAIN sessions : sessions[id].CurrentLocationID \in DOMAIN locations

\* C36: UpdateSession never changes which session object the store holds
\* for an id.  Called with an object that is not the stored one but carries
\* a tracked id, it returns no error, the store holds what it held, the
\* stored session's location, log and LastActive included, and of the
\* object passed only LastActive is set.
UpdateKeepsStoredObject ==
    [][(steps' # steps /\ ret'.op = "UpdateSession" /\ ret'.passed # NilSession
           /\ ~ret'.aliased /\ ret'.passed.ID \in DOMAIN sessions)
         => /\ ret'.err = NoError
            /\ sessions' = sessions
            /\ sessions'[ret'.passed.ID].CurrentLocationID =
                  sessions[ret'.passed.ID].CurrentLocationID
            /\ sessions'[ret'.passed.ID].RecentActions =
                  sessions[ret'.passed.ID].RecentActions
            /\ sessions'[ret'.passed.ID].LastActive = sessions[ret'.passed.ID].LastActive
            /\ ret'.session = [ret'.passed EXCEPT !.LastActive = now]]_vars

\* a copy that was moved to keep is passed at time 1 for a session created
\* and last active at time 0: the store still holds the session at its
\* start location with LastActive 0, the copy carries LastActive 1
UpdateKeepsStoredObjectWitness ==
    /\ UpdateReturned
    /\ ~ret.aliased
    /\ ret.err = NoError
    /\ ret.passed.ID \in DOMAIN sessions
    /\ ret.passed.CurrentLocationID = "keep"
    /\ ret.passed.LastActive = 0
    /\ ret.session.LastActive = 1
    /\ sessions[ret.passed.ID].LastActive = 0
    /\ sessions[ret.passed.ID].CurrentLocationID # "keep"
    /\ sessions[ret.passed.ID] # ret.session

\* a batch made of the same updateLocation action twice
MoveRepeated ==
    /\ ExecOnSession
    /\ Len(ret.actions) = 2
    /\ ret.actions[1] = ret.actions[2]
    /\ ret.actions[1].Type = UpdateLocation

\* C37: repeating an updateLocation action is idempotent on the location.
\* For every graph, starting location and target, the location after
\* [updateLocation T, updateLocation T] is the location after
\* [updateLocation T]; when the first succeeds the second succeeds and
\* leaves the location where it is, and when the first fails the second
\* fails with the same error.
RepeatedMoveIdempotent ==
    MoveRepeated =>
        LET once == ExecuteActions(locations, <<ret.actions[1]>>, ret.before)
            first == Iterations[1]
            second == Iterations[2]
        IN  /\ sessions[ret.sid].CurrentLocationID = once.session.CurrentLocationID
            /\ ~Failed(first) =>
                  /\ ~Failed(second)
                  /\ second.after.CurrentLocationID = second.before.CurrentLocationID
                  /\ Len(ret.errors) = 0
            /\ Failed(first) =>
                  /\ Failed(second)
                  /\ second.err = first.err
                  /\ Len(ret.errors) = 2
                  /\ sessions[ret.sid].CurrentLocationID = ret.before.CurrentLocationID

\* gate -> village twice on the chain, where village does not list itself:
\* the first move is taken, the second succeeds without moving
RepeatedMoveIdempotentWitness ==
    /\ MoveRepeated
    /\ locations = ChainGraph
    /\ ret.before.CurrentLocationID = "gate"
    /\ ret.actions[1] = MoveTo("village")
    /\ ~Failed(Iterations[1])
    /\ ~Failed(Iterations[2])
    /\ sessions[ret.sid].CurrentLocationID = "village"

\* every session of the store was last active at or after its creation
ActiveAfterCreated ==
    \A id \in DOMAIN sessions : sessions[id].LastActive >= sessions[id].CreatedAt

\* no step lowers the LastActive of a session of the store, and an update
\* does not lower that of the object it is passed
ActiveNeverDecreases ==
    /\ \A id \in DOMAIN sessions :
          /\ id \in DOMAIN sessions'
          /\ sessions'[id].LastActive >= sessions[id].LastActive
    /\ (steps' # steps /\ ret'.op = "UpdateSession" /\ ret'.passed # NilSession) =>
          ret'.session.LastActive >= ret'.passed.LastActive

\* C38: with a clock that never goes back, every session of the store has
\* LastActive >= CreatedAt in every reachable state, and LastActive never
\* decreases under creates, gets, updates and turns in any order.
LastActiveMonotonic == []ActiveAfterCreated /\ [][ActiveNeverDecreases]_vars

\* a session created at time 0 has had a turn at time 1
LastActiveMonotonicWitness ==
    /\ TurnReturned
    /\ ret.err = NoError
    /\ sessions[ret.sid].CreatedAt = 0
    /\ ret.before.LastActive = 0
    /\ sessions[ret.sid].LastActive = 1

\* a caller holds the read lock of the store exactly inside the lookup of
\* GetSession, its write lock exactly from Lock() to the unlocking step, the
\* read lock of the world exactly inside a query; the loader holds the
\* write lock of the world exactly while a load is under way
LocksFollowCalls ==
    /\ \A p \in Callers :
          /\ (p \in mu.sm.readers) = (pc[p].at = "lookup")
          /\ (mu.sm.writer = p) = (pc[p].at \in {"touching", "updating", "creating"})
          /\ (p \in mu.ws.readers) =
                (pc[p].at \in {"in context", "in adjacent", "in resolve", "in move"})
          /\ mu.ws.writer # p
          /\ pc[p].at = "done" =>
                (p \notin mu.sm.readers \cup mu.ws.readers /\ mu.sm.writer # p)
    /\ (mu.ws.writer = "loader") = (pc["loader"].at # "idle")
    /\ mu.sm.writer # "loader"
    /\ "loader" \notin mu.sm.readers \cup mu.ws.readers

\* every call has returned, the load included, and both locks are free
AllReturned ==
    /\ \A p \in Callers : pc[p].at = "done"
    /\ pc["loader"] = Idle
    /\ steps = MaxLoads
    /\ mu = Unlocked

\* C39: under fair scheduling of two turns, a create or a get and a load of
\* the world, every call that was started completes, the turns once the
\* generator has returned; no lock of the world or of the store is held by
\* a call that has returned; and the run never gets stuck before all of
\* them have returned.
EveryCallCompletes == []LocksFollowCalls /\ <>[]AllReturned

\* the loader has called Lock() while one turn is inside a query of the
\* world and the other is about to call RLock()
EveryCallCompletesWitness ==
    /\ pc["loader"].at = "lock"
    /\ mu.ws.writer = "loader"
    /\ mu.ws.readers = {"turn1"}
    /\ pc["turn2"].at \in {"context", "adjacent", "resolve", "move"}
    /\ mu.sm.writer = "client"

====
